---- MODULE Spec2Model ----
(***************************************************************************)
(* Decision engine of the Beacon Blocker background service worker         *)
(* (src/background.js): the PAGE_STATE_UPDATE pipeline, the per-tab lock,  *)
(* the cooldown map, the versioned decision cache, the in-flight request   *)
(* map, the classifier call with retry, blockPage and the activity log.    *)
(*                                                                         *)
(* One action is the code that runs between two suspension points (await   *)
(* of a storage call, of the network, of a timer): JavaScript runs such a  *)
(* stretch without interleaving.  A storage call takes effect in the       *)
(* action that continues after it; the storage calls of different handlers *)
(* complete in any order.                                                  *)
(***************************************************************************)
EXTENDS Integers, Sequences, FiniteSets, TLC

(***************************************************************************)
(* Bounds of the model.                                                    *)
(***************************************************************************)
NumTabs == 2
MaxObs  == 3      \* PAGE_STATE_UPDATE messages delivered in one behaviour
T0      == 1      \* Date.now() at start (positive, so a timestamp is truthy)
TickMs  == 3000   \* the clock advances in steps of TickMs
MaxTime == 6001   \* the clock stops advancing here
MaxVersion == 2   \* the backend's rule version goes up to here
MaxUserOps == 1   \* SYNC_PAUSE / CLEAR_LOCAL_CACHE messages in one behaviour
MaxNav  == 4      \* tabs.onUpdated events delivered in one behaviour
PartMs  == 400    \* a clock step that is not a whole number of seconds
MAX_CACHE_SIZE == 2  \* 200 in the source (line 183), scaled to the model's keys
MaxExternal == 2  \* external messages delivered in one behaviour

(***************************************************************************)
(* Program constants.                                                      *)
(***************************************************************************)
PROCESSING_COOLDOWN_MS == 3000
API_MAX_RETRIES == 2

Tabs == 1..NumTabs
Obs  == 1..MaxObs
Navs == 1..MaxNav

(***************************************************************************)
(* Strings the code takes apart are modelled by their parts.  A URL string *)
(* is its scheme ("" when the string has none, so that new URL throws),    *)
(* the hostname's labels, the pathname's segments, whether the pathname    *)
(* ends in a slash, and the value of the v query parameter and of any      *)
(* other query parameter ("" when absent).  A string may carry a prefix in *)
(* front of these parts: a scheme that is not followed by "//", as in      *)
(* "view-source:https://site.com/a"; new URL parses such a string with an  *)
(* empty hostname and with everything between the prefix and the query as  *)
(* its pathname.  Prefixed strings are handed to normalizeUrl only.        *)
(***************************************************************************)
MkUrl(s, h, p, sl, v, o) ==
    [scheme |-> s, host |-> h, path |-> p, slash |-> sl, v |-> v, other |-> o,
     prefix |-> ""]

Prefixed(prefix, url) == [url EXCEPT !.prefix = prefix]

NullUrl == MkUrl("null", <<>>, <<>>, FALSE, "", "")

UrlA  == MkUrl("https", <<"site", "com">>, <<"a">>, FALSE, "", "")
UrlAw == MkUrl("https", <<"www", "site", "com">>, <<"a">>, TRUE, "", "ref=1")
UrlB  == MkUrl("https", <<"news", "org">>, <<"b">>, FALSE, "", "")
UrlS  == MkUrl("https", <<"gist", "github", "com">>, <<"x">>, FALSE, "", "")

\* three short-form videos
UrlY1 == MkUrl("https", <<"www", "youtube", "com">>, <<"shorts", "s1">>, FALSE, "", "")
UrlY2 == MkUrl("https", <<"www", "youtube", "com">>, <<"shorts", "s2">>, FALSE, "", "")
UrlY3 == MkUrl("https", <<"www", "youtube", "com">>, <<"shorts", "s3">>, FALSE, "", "")

\* three pages of a host whose name begins with the letters "http"
UrlH1 == MkUrl("https", <<"httpbin", "org">>, <<"h1">>, FALSE, "", "")
UrlH2 == MkUrl("https", <<"httpbin", "org">>, <<"h2">>, FALSE, "", "")
UrlH3 == MkUrl("https", <<"httpbin", "org">>, <<"h3">>, FALSE, "", "")

\* a video's watch page, and the same url with a trailing slash in the pathname
UrlW  == MkUrl("https", <<"www", "youtube", "com">>, <<"watch">>, FALSE, "1", "")
UrlWs == MkUrl("https", <<"www", "youtube", "com">>, <<"watch">>, TRUE, "1", "")

\* another video's watch page, and the two videos' watch pages on the mobile host
UrlW2 == MkUrl("https", <<"www", "youtube", "com">>, <<"watch">>, FALSE, "2", "")
UrlM1 == MkUrl("https", <<"m", "youtube", "com">>, <<"watch">>, FALSE, "1", "")
UrlM2 == MkUrl("https", <<"m", "youtube", "com">>, <<"watch">>, FALSE, "2", "")

URLS == {UrlA, UrlAw, UrlB, UrlS, UrlY1, UrlY2, UrlY3, UrlH1, UrlH2, UrlH3, UrlW, UrlWs,
         UrlW2, UrlM1, UrlM2}

NullTitle == "<null>"
Titles == {"", "T1", "T2"}

\* new URL(url) throws for a string without a scheme
Parses(url) == url.prefix # "" \/ url.scheme \notin {"", "null"}

\* urlObj.hostname.startsWith('www.') ? urlObj.hostname.substring(4) : urlObj.hostname
StripWww(h) == IF Len(h) > 1 /\ h[1] = "www" THEN Tail(h) ELSE h

normalizeUrl(url) ==
    IF ~Parses(url) THEN url
    ELSE IF url.prefix # ""
    THEN \* hostname is empty; the pathname loses a trailing slash
         MkUrl(url.scheme, url.host, url.path, FALSE, "", "")
    ELSE LET hostname == StripWww(url.host) IN
         IF hostname = <<"youtube", "com">> /\ url.path = <<"watch">> /\ ~url.slash
         THEN MkUrl("", hostname, url.path, FALSE, url.v, "")
         ELSE MkUrl("", hostname, url.path, FALSE, "", "")

Keys == {normalizeUrl(u) : u \in URLS}

IsSuffix(s, h) ==
    Len(s) <= Len(h) /\ SubSeq(h, Len(h) - Len(s) + 1, Len(h)) = s

\* the entries of SAFE_LIST that the model's hostnames can meet
SAFE_LIST == { <<"google", "com">>, <<"github", "com">>, <<"stackoverflow", "com">>,
               <<"localhost">>, <<"vercel", "app">>, <<"beaconblocker", "com">> }

\* a safe list that matches whole hostnames only
isSafeExact(hostname) == hostname \in SAFE_LIST

\* SAFE_LIST.some(safe => hostname === safe || hostname.endsWith('.' + safe))
isSafe(hostname) == \E safe \in SAFE_LIST : IsSuffix(safe, hostname)

(***************************************************************************)
(* The classifier's reason texts, as the characters the code's regular     *)
(* expressions and includes() calls look at.                               *)
(***************************************************************************)
Reasons == {"", "Distracting site", "45 minutes left in study session",
            "Blocked until 5pm", "Focus block 14:00-16:00"}

\* reason.toLowerCase(), character by character
Chars(reason) ==
    CASE reason = "" -> <<>>
      [] reason = "Distracting site" ->
           <<"d","i","s","t","r","a","c","t","i","n","g"," ","s","i","t","e">>
      [] reason = "45 minutes left in study session" ->
           <<"4","5"," ","m","i","n","u","t","e","s"," ","l","e","f","t"," ","i","n",
             " ","s","t","u","d","y"," ","s","e","s","s","i","o","n">>
      [] reason = "Blocked until 5pm" ->
           <<"b","l","o","c","k","e","d"," ","u","n","t","i","l"," ","5","p","m">>
      [] reason = "Focus block 14:00-16:00" ->
           <<"f","o","c","u","s"," ","b","l","o","c","k"," ","1","4",":","0","0","-",
             "1","6",":","0","0">>
      [] OTHER -> <<>>

Digits == {"0","1","2","3","4","5","6","7","8","9"}

\* s has w at position i
HasAt(s, i, w) == i + Len(w) - 1 <= Len(s) /\ SubSeq(s, i, i + Len(w) - 1) = w

\* reasonLower.includes(w)
Includes(s, w) == \E i \in 1..Len(s) : HasAt(s, i, w)

\* /\d+\s*(w1|w2|...)/i : a digit, then blanks, then one of the words
DigitThen(s, ws) ==
    \E i \in 1..Len(s) : \E j \in (i + 1)..Len(s) :
        /\ s[i] \in Digits
        /\ \A m \in (i + 1)..(j - 1) : s[m] = " "
        /\ \E w \in ws : HasAt(s, j, w)

AmPm == { <<"a","m">>, <<"p","m">> }

\* /\d{1,2}:\d{2}\s*(am|pm)/i
ClockAmPm(s) ==
    \E i \in 1..Len(s) : \E j \in (i + 4)..Len(s) :
        /\ i + 3 <= Len(s)
        /\ s[i] \in Digits /\ s[i + 1] = ":" /\ s[i + 2] \in Digits /\ s[i + 3] \in Digits
        /\ \A m \in (i + 4)..(j - 1) : s[m] = " "
        /\ \E w \in AmPm : HasAt(s, j, w)

TimeWords == { <<"l","e","f","t",")">>, <<"u","n","t","i","l">>, <<"t","i","l","l">>,
               <<"t","h","r","o","u","g","h">>, <<"b","e","f","o","r","e">>,
               <<"a","f","t","e","r">>, <<"s","t","a","r","t","i","n","g">>,
               <<"n","o","o","n">>, <<"m","i","d","n","i","g","h","t">>,
               <<"t","i","m","e","r">>, <<"e","x","p","i","r","e","d">>,
               <<"c","l","o","c","k">> }

isTimeSensitive(reason) ==
    LET s == Chars(reason) IN
    /\ reason # ""
    /\ \/ DigitThen(s, { <<"m","i","n">>, <<"s","e","c">>, <<"h","o","u","r">> })
       \/ ClockAmPm(s)
       \/ DigitThen(s, AmPm)
       \/ \E w \in TimeWords : Includes(s, w)

(***************************************************************************)
(* Values.                                                                 *)
(***************************************************************************)
NoEntry == [decision |-> "none", reason |-> "", timestamp |-> 0, cacheVersion |-> 0]

NoData == [decision |-> "none", reason |-> "", cacheVersion |-> 0]

NoTabState == [lastProcessedUrl |-> NullUrl, lastProcessedTitle |-> NullTitle,
               blockedUrl |-> NullUrl, present |-> FALSE]

\* { lastProcessedUrl: null, lastProcessedTitle: null } (blockedUrl undefined)
FreshTabState == [lastProcessedUrl |-> NullUrl, lastProcessedTitle |-> NullTitle,
                  blockedUrl |-> NullUrl, present |-> TRUE]

\* exit: the return through which the locked body has left ("" while it has not)
NoPsu == [pc |-> "none", tab |-> 0, url |-> NullUrl, title |-> NullTitle,
          waitOn |-> 0, cached |-> NoEntry, exit |-> ""]

\* invocation i of handlePageCheck is the one made by invocation i of
\* handlePageStateUpdate: its pageData and tabId are psu[i]'s
NoHpc == [pc |-> "none", waitOn |-> 0, attempt |-> 0, status |-> 0, data |-> NoData,
          result |-> "none", entry |-> NoEntry]

\* no entry in shortsSessionBuffer / no shortsSession_<tabId> key in storage
NoSession == [active |-> FALSE, count |-> 0, startTime |-> 0, startUrl |-> NullUrl,
              visitedUrls |-> {}, platform |-> ""]

\* cleanupCache: its position and the keys it is about to remove
NoCleanup == [pc |-> "idle", toRemove |-> {}]

NoUpd == [pc |-> "none", tab |-> 0, url |-> NullUrl, changed |-> FALSE, cached |-> NoEntry]

VARIABLES
    now,               \* Date.now()
    authToken,         \* let authToken (in memory): TRUE when a token is held
    tabState,          \* let tabState = {}
    tabLocks,          \* const tabLocks = new Map(): tab -> id of the lock promise, 0 none
    pendingRequests,   \* const pendingRequests = new Map(): key -> id of the promise, 0 none
    recentlyProcessed, \* const recentlyProcessed = new Map(): key -> timestamp, 0 none
    cache,             \* chrome.storage.local, the decision-cache entries by key
    store,             \* chrome.storage.local, the other keys
    psu,               \* the handlePageStateUpdate invocations
    hpc,               \* the handlePageCheck invocations (one per cache miss)
    waiters,           \* per request promise, the callers awaiting it, in order
    clr,               \* the handleClearLocalCache invocations
    blockTasks,        \* the blockPage invocations under way
    logTasks,          \* the addToLocalBlockLog invocations under way
    serverVersion,     \* the backend's current rule version
    nobs,              \* messages delivered so far
    nops,              \* user messages delivered so far
    calls,             \* per key, fetchWithRetry calls made to /check-url
    redirects,         \* chrome.tabs.update calls made by blockPage, with the caller
    dashboardOpens,    \* chrome.tabs.create calls of the 402 branch
    unhandled,         \* handlePageCheck calls whose promise rejected with no handler
    upd,               \* the tabs.onUpdated invocations
    nnav,              \* tabs.onUpdated events delivered so far
    shortsSessionBuffer, \* const shortsSessionBuffer = new Map(): tab -> session
    sessionStore,      \* chrome.storage.local, the shortsSession_<tabId> keys
    shortsTasks,       \* the handleShortsViewed / endShortsSession invocations under way
    cleanup,           \* the cleanupCache invocation
    arg,               \* a string handed to normalizeUrl
    res,               \* what normalizeUrl returned for arg, then for that result
    external           \* the external messages delivered so far, each with its reply

vars == <<now, authToken, tabState, tabLocks, pendingRequests, recentlyProcessed,
          cache, store, psu, hpc, waiters, clr, blockTasks, logTasks,
          serverVersion, nobs, nops, calls, redirects, dashboardOpens, unhandled,
          upd, nnav, shortsSessionBuffer, sessionStore, shortsTasks,
          cleanup, arg, res, external>>

navVars == <<upd, nnav, shortsSessionBuffer, sessionStore, shortsTasks>>

moreVars == <<cleanup, arg, res, external>>

(***************************************************************************)
(* State after the service worker has started and initialize() has loaded  *)
(* the token of a signed-in user; nothing is cached yet.                   *)
(***************************************************************************)
InitStore == [cacheVersion |-> 0, blockingPaused |-> FALSE, authToken |-> TRUE,
              localBlockLog |-> <<>>, logAllowDecisions |-> FALSE,
              lastSubscriptionPrompt |-> 0]

NoClr == [pc |-> "idle", diskState |-> InitStore, keysToRemove |-> {},
          otherKeys |-> {}, sessionKeys |-> {}, recovery |-> {}]

\* cleanupCache is not running; no string has been handed to normalizeUrl; no
\* external message has arrived
InitMore ==
    /\ cleanup = NoCleanup
    /\ arg = NullUrl
    /\ res = <<>>
    /\ external = <<>>

\* no navigation has been seen and no short-form session is under way
InitNav ==
    /\ upd = [n \in Navs |-> NoUpd]
    /\ nnav = 0
    /\ shortsSessionBuffer = [t \in Tabs |-> NoSession]
    /\ sessionStore = [t \in Tabs |-> NoSession]
    /\ shortsTasks = {}

Init ==
    /\ now = T0
    /\ authToken = TRUE
    /\ tabState = [t \in Tabs |-> NoTabState]
    /\ tabLocks = [t \in Tabs |-> 0]
    /\ pendingRequests = [k \in Keys |-> 0]
    /\ recentlyProcessed = [k \in Keys |-> 0]
    /\ cache = [k \in Keys |-> NoEntry]
    /\ store = InitStore
    /\ psu = [i \in Obs |-> NoPsu]
    /\ hpc = [i \in Obs |-> NoHpc]
    /\ waiters = [i \in Obs |-> <<>>]
    /\ clr = [c \in 0..MaxObs |-> NoClr]
    /\ blockTasks = {}
    /\ logTasks = {}
    /\ serverVersion = 1
    /\ nobs = 0
    /\ nops = 0
    /\ calls = [k \in Keys |-> 0]
    /\ redirects = {}
    /\ dashboardOpens = 0
    /\ unhandled = {}
    /\ InitNav
    /\ InitMore

Max(S) == CHOOSE x \in S : \A y \in S : y <= x

\* Promise reactions run before the next task: once a request promise has
\* settled, the callers awaiting it (line 1307, line 1193) resume before any
\* other handler or callback runs.
Ready == \A i \in Obs : hpc[i].pc # "settled"

(***************************************************************************)
(* Per-tab lock: handlePageStateUpdate, lines 706-714 and 853-859.         *)
(***************************************************************************)
LockWaiters(p, i) == {j \in Obs : p[j].pc = "waitLock" /\ p[j].waitOn = i}

\* lockPromise of invocation i settles: its finally runs, then every waiter
\* continues past its await and starts its own body
Released(p, i) ==
    [j \in Obs |->
        IF j = i THEN [NoPsu EXCEPT !.pc = "done", !.tab = p[j].tab, !.url = p[j].url]
        ELSE IF j \in LockWaiters(p, i) THEN [p[j] EXCEPT !.pc = "pause", !.waitOn = 0]
        ELSE p[j]]

\* the locked body of invocation i returns through the given return statement
Exit(p, i, exit) == [Released(p, i) EXCEPT ![i].exit = exit]

\* a finally block that leaves the lock of a finished operation in the map
LockNeverDeleted(p, i) == IF LockWaiters(p, i) = {} THEN i ELSE Max(LockWaiters(p, i))

\* tabLocks.delete(tabId), then tabLocks.set(tabId, lockPromise) by each waiter
\* in the order they started waiting (the order of their ids)
LockAfter(p, i) == IF LockWaiters(p, i) = {} THEN 0 ELSE Max(LockWaiters(p, i))

NewBlock(kind, i, t, u) ==
    [kind |-> kind, id |-> i, tab |-> t, url |-> u, stage |-> "pause"]

NewLog(kind, i, dec, u, cachedPrefix, text) ==
    [kind |-> kind, id |-> i, decision |-> dec, url |-> u,
     reason |-> [cached |-> cachedPrefix, text |-> text],
     count |-> 0, duration |-> <<0, 0>>, timestamp |-> 0,
     stage |-> IF dec = "ALLOW" THEN "allow" ELSE "read", blockLog |-> <<>>]

(***************************************************************************)
(* chrome.runtime.onMessage, PAGE_STATE_UPDATE (lines 592-603), and the    *)
(* start of handlePageStateUpdate (lines 702-717, 853-854).                *)
(***************************************************************************)
Observe(t, u, title) ==
    /\ Ready
    /\ nobs < MaxObs
    /\ authToken
    /\ LET i == nobs + 1 IN
       /\ nobs' = i
       /\ IF tabLocks[t] # 0
          THEN /\ psu' = [psu EXCEPT ![i] = [NoPsu EXCEPT !.pc = "waitLock", !.tab = t,
                                   !.url = u, !.title = title, !.waitOn = tabLocks[t]]]
               /\ UNCHANGED tabLocks
          ELSE /\ psu' = [psu EXCEPT ![i] = [NoPsu EXCEPT !.pc = "pause", !.tab = t,
                                   !.url = u, !.title = title]]
               /\ tabLocks' = [tabLocks EXCEPT ![t] = i]
    /\ UNCHANGED <<now, authToken, tabState, pendingRequests, recentlyProcessed, cache,
                   store, hpc, waiters, clr, blockTasks, logTasks, serverVersion, nops,
                   calls, redirects, dashboardOpens, unhandled>>
    /\ UNCHANGED navVars
    /\ UNCHANGED moreVars

\* hostname.includes('youtube.com'), on the labels
IncludesLabels(h, w) == \E i \in 1..Len(h) : HasAt(h, i, w)

\* lines 729-761: the url filters of the locked body; TRUE when the body returns
FilteredOut(url) ==
    \/ ~Parses(url)
    \/ isSafe(url.host)
    \/ url.scheme \in {"chrome", "about", "edge"}
    \/ /\ IncludesLabels(url.host, <<"youtube", "com">>)
       /\ ~ \/ (url.path = <<"watch">> /\ ~url.slash)
            \/ (Len(url.path) > 0 /\ url.path[1] = "shorts"
                  /\ (Len(url.path) > 1 \/ url.slash))

\* a pause check that lets every observation through
PauseNeverSkips(blockingPaused) == FALSE

\* lines 723-727: the pause check; TRUE when the body returns
PauseSkip(blockingPaused) == blockingPaused = TRUE

\* lines 769-779: the tab-state checks; TRUE when the body returns
DedupSkip(state, url, title) ==
    \/ title = "" \/ title = "YouTube"
    \/ (url = state.lastProcessedUrl /\ title = state.lastProcessedTitle)
    \/ (url # state.lastProcessedUrl /\ title = state.lastProcessedTitle)

\* lines 787-788
CooldownSkip(lastProcessedTime) ==
    lastProcessedTime # 0 /\ now - lastProcessedTime < PROCESSING_COOLDOWN_MS

(***************************************************************************)
(* The locked body from the pause check to the first cache read            *)
(* (lines 718-818).                                                        *)
(***************************************************************************)
PsuFilter(i) ==
    /\ Ready
    /\ psu[i].pc = "pause"
    /\ LET t == psu[i].tab
           url == psu[i].url
           title == psu[i].title
           state == IF tabState[t].present THEN tabState[t] ELSE FreshTabState
           cacheKey == normalizeUrl(url)
       IN
       IF PauseSkip(store.blockingPaused) \/ FilteredOut(url)
       THEN /\ psu' = Exit(psu, i, IF PauseSkip(store.blockingPaused)
                                   THEN "paused" ELSE "filtered")
            /\ tabLocks' = [tabLocks EXCEPT ![t] = LockAfter(psu, i)]
            /\ UNCHANGED <<tabState, recentlyProcessed>>
       ELSE IF DedupSkip(state, url, title)
       THEN /\ tabState' = [tabState EXCEPT ![t] = state]
            /\ psu' = Exit(psu, i, "dedup")
            /\ tabLocks' = [tabLocks EXCEPT ![t] = LockAfter(psu, i)]
            /\ UNCHANGED recentlyProcessed
       ELSE /\ tabState' = [tabState EXCEPT ![t] =
                    [state EXCEPT !.lastProcessedUrl = url, !.lastProcessedTitle = title]]
            /\ IF CooldownSkip(recentlyProcessed[cacheKey])
               THEN /\ psu' = Exit(psu, i, "cooldown")
                    /\ tabLocks' = [tabLocks EXCEPT ![t] = LockAfter(psu, i)]
                    /\ UNCHANGED recentlyProcessed
               ELSE /\ recentlyProcessed' = [recentlyProcessed EXCEPT ![cacheKey] = now]
                    /\ psu' = [psu EXCEPT ![i].pc = "getCache"]
                    /\ UNCHANGED tabLocks
    /\ UNCHANGED <<now, authToken, pendingRequests, cache, store, hpc, waiters, clr,
                   blockTasks, logTasks, serverVersion, nobs, nops, calls, redirects,
                   dashboardOpens, unhandled>>
    /\ UNCHANGED navVars
    /\ UNCHANGED moreVars

\* getCache (lines 215-224), awaited at line 818
getCache(url) == cache[normalizeUrl(url)]

PsuGetCache(i) ==
    /\ Ready
    /\ psu[i].pc = "getCache"
    /\ psu' = [psu EXCEPT ![i].pc = "getVersion", ![i].cached = getCache(psu[i].url)]
    /\ UNCHANGED <<now, authToken, tabState, tabLocks, pendingRequests, recentlyProcessed,
                   cache, store, hpc, waiters, clr, blockTasks, logTasks, serverVersion,
                   nobs, nops, calls, redirects, dashboardOpens, unhandled>>
    /\ UNCHANGED navVars
    /\ UNCHANGED moreVars

\* getCache, lines 219-223: chrome.storage.local.get rejects; getCache returns
\* null
PsuGetCacheFails(i) ==
    /\ Ready
    /\ psu[i].pc = "getCache"
    /\ psu' = [psu EXCEPT ![i].pc = "getVersion", ![i].cached = NoEntry]
    /\ UNCHANGED <<now, authToken, tabState, tabLocks, pendingRequests, recentlyProcessed,
                   cache, store, hpc, waiters, clr, blockTasks, logTasks, serverVersion,
                   nobs, nops, calls, redirects, dashboardOpens, unhandled>>
    /\ UNCHANGED navVars
    /\ UNCHANGED moreVars

\* line 819: chrome.storage.local.get('cacheVersion') rejects; the locked body
\* throws, and the finally of lines 857-859 runs
PsuVersionFails(i) ==
    /\ Ready
    /\ psu[i].pc = "getVersion"
    /\ psu' = Exit(psu, i, "threw")
    /\ tabLocks' = [tabLocks EXCEPT ![psu[i].tab] = LockAfter(psu, i)]
    /\ UNCHANGED <<now, authToken, tabState, pendingRequests, recentlyProcessed,
                   cache, store, hpc, waiters, clr, blockTasks, logTasks, serverVersion,
                   nobs, nops, calls, redirects, dashboardOpens, unhandled>>
    /\ UNCHANGED navVars
    /\ UNCHANGED moreVars

\* a lookup that never finds a valid entry
cacheNeverValid(cached, currentVersion) == FALSE

\* line 822 (and 1094)
cacheValid(cached, currentVersion) ==
    cached # NoEntry /\ (currentVersion = 0 \/ cached.cacheVersion = currentVersion)

(***************************************************************************)
(* handlePageCheck up to its first suspension (lines 1177-1204, 1304):     *)
(* the caller either awaits the promise registered for its key or starts   *)
(* the request and registers it.                                           *)
(***************************************************************************)
\* lines 1181-1187: handlePageCheck returns at once
HpcSkips(url) == url.scheme = "chrome-extension" \/ isSafe(url.host)

\* lines 1204-1234 and 1304: the request is started and registered
StartRequest(h, i) == [h EXCEPT ![i] = [NoHpc EXCEPT !.pc = "fetch"]]

\* lines 1191-1193: the caller awaits the registered promise
AwaitExisting(h, i, p) == [h EXCEPT ![i] = [NoHpc EXCEPT !.pc = "await", !.waitOn = p]]

\* line 1191
HasPending(cacheKey) == pendingRequests[cacheKey] # 0

(***************************************************************************)
(* The locked body from the read of cacheVersion to its end                *)
(* (lines 819-851), handlePageCheck's synchronous start included.          *)
(***************************************************************************)
PsuDecide(i) ==
    /\ Ready
    /\ psu[i].pc = "getVersion"
    /\ LET t == psu[i].tab
           url == psu[i].url
           title == psu[i].title
           cached == psu[i].cached
           currentVersion == store.cacheVersion
           cacheKey == normalizeUrl(url)
       IN
       /\ psu' = Exit(psu, i, "end")
       /\ tabLocks' = [tabLocks EXCEPT ![t] = LockAfter(psu, i)]
       /\ IF cacheValid(cached, currentVersion)
          THEN /\ IF cached.decision = "BLOCK"
                     /\ ~(tabState[t].present /\ tabState[t].blockedUrl = url)
                  THEN /\ logTasks' = logTasks \cup
                              {NewLog("psu", i, "BLOCK", url, TRUE, cached.reason)}
                       /\ blockTasks' = blockTasks \cup {NewBlock("psu", i, t, url)}
                  ELSE UNCHANGED <<logTasks, blockTasks>>
               /\ UNCHANGED <<hpc, pendingRequests, waiters, calls>>
          ELSE /\ UNCHANGED <<logTasks, blockTasks>>
               /\ IF HpcSkips(url)
                  THEN UNCHANGED <<hpc, pendingRequests, waiters, calls>>
                  ELSE IF HasPending(cacheKey)
                  THEN /\ hpc' = AwaitExisting(hpc, i, pendingRequests[cacheKey])
                       /\ waiters' = [waiters EXCEPT ![pendingRequests[cacheKey]] =
                                         Append(@, i)]
                       /\ UNCHANGED <<pendingRequests, calls>>
                  ELSE /\ hpc' = StartRequest(hpc, i)
                       /\ pendingRequests' = [pendingRequests EXCEPT ![cacheKey] = i]
                       /\ calls' = [calls EXCEPT ![cacheKey] = @ + 1]
                       /\ UNCHANGED waiters
    /\ UNCHANGED <<now, authToken, tabState, recentlyProcessed, cache, store, clr,
                   serverVersion, nobs, nops, redirects, dashboardOpens, unhandled>>
    /\ UNCHANGED navVars
    /\ UNCHANGED moreVars

(***************************************************************************)
(* fetchWithRetry (lines 158-178) around fetchWithTimeout (lines 130-156). *)
(***************************************************************************)
\* a loop that goes round once more than maxRetries allows
FetchThrowOnceMore(i) ==
    /\ Ready
    /\ hpc[i].pc = "fetch"
    /\ IF hpc[i].attempt > API_MAX_RETRIES
       THEN hpc' = [hpc EXCEPT ![i].pc = "settled", ![i].result = "rejected"]
       ELSE hpc' = [hpc EXCEPT ![i].attempt = @ + 1]
    /\ UNCHANGED <<now, authToken, tabState, tabLocks, pendingRequests, recentlyProcessed,
                   cache, store, psu, waiters, clr, blockTasks, logTasks, serverVersion,
                   nobs, nops, calls, redirects, dashboardOpens, unhandled>>
    /\ UNCHANGED navVars
    /\ UNCHANGED moreVars

\* an attempt throws (network error, or the abort turned into 'Request timeout')
FetchThrow(i) ==
    /\ Ready
    /\ hpc[i].pc = "fetch"
    /\ IF hpc[i].attempt >= API_MAX_RETRIES
       THEN hpc' = [hpc EXCEPT ![i].pc = "settled", ![i].result = "rejected"]
       ELSE hpc' = [hpc EXCEPT ![i].attempt = @ + 1]
    /\ UNCHANGED <<now, authToken, tabState, tabLocks, pendingRequests, recentlyProcessed,
                   cache, store, psu, waiters, clr, blockTasks, logTasks, serverVersion,
                   nobs, nops, calls, redirects, dashboardOpens, unhandled>>
    /\ UNCHANGED navVars
    /\ UNCHANGED moreVars

\* every decision goes on to setCache
AlwaysCache(rec) == [rec EXCEPT !.pc = "setCacheGet"]

\* lines 1270-1295: after the invalidation check, cache the decision or not
AfterInvalidation(rec) ==
    IF isTimeSensitive(rec.data.reason)
    THEN [rec EXCEPT !.pc = "settled", !.result = "data"]
    ELSE [rec EXCEPT !.pc = "setCacheGet"]

Statuses == {200, 401, 403, 402, 500}

\* an attempt returns a response (lines 1235-1262)
\* The backend answers with its rule version of the moment (or with none); the
\* user may have changed the rules since the last answer.
FetchRespond(i, status, decision, reason, cacheVersion) ==
    /\ Ready
    /\ hpc[i].pc = "fetch"
    /\ cacheVersion = 0 \/ cacheVersion >= serverVersion
    /\ serverVersion' = IF cacheVersion = 0 THEN serverVersion ELSE cacheVersion
    /\ LET data == [decision |-> decision, reason |-> reason,
                    cacheVersion |-> cacheVersion]
           got == [hpc[i] EXCEPT !.status = status]
           rec == [got EXCEPT !.data = data]
       IN
       hpc' = [hpc EXCEPT ![i] =
                 IF status = 401 \/ status = 403 THEN [got EXCEPT !.pc = "removeToken"]
                 ELSE IF status = 402 THEN [got EXCEPT !.pc = "getPrompt"]
                 ELSE IF status < 200 \/ status > 299
                      THEN [got EXCEPT !.pc = "settled", !.result = "rejected"]
                 ELSE IF data.cacheVersion # 0 THEN [rec EXCEPT !.pc = "getLocalVersion"]
                 ELSE AfterInvalidation(rec)]
    /\ UNCHANGED <<now, authToken, tabState, tabLocks, pendingRequests, recentlyProcessed,
                   cache, store, psu, waiters, clr, blockTasks, logTasks,
                   nobs, nops, calls, redirects, dashboardOpens, unhandled>>
    /\ UNCHANGED navVars
    /\ UNCHANGED moreVars

\* the 401/403 branch without line 1239
KeepTokenInMemory(i) ==
    /\ Ready
    /\ hpc[i].pc = "removeToken"
    /\ store' = [store EXCEPT !.authToken = FALSE]
    /\ hpc' = [hpc EXCEPT ![i].pc = "settled", ![i].result = "null"]
    /\ UNCHANGED <<now, authToken, tabState, tabLocks, pendingRequests, recentlyProcessed,
                   cache, psu, waiters, clr, blockTasks, logTasks, serverVersion,
                   nobs, nops, calls, redirects, dashboardOpens, unhandled>>
    /\ UNCHANGED navVars
    /\ UNCHANGED moreVars

\* lines 1237-1242
HpcRemoveToken(i) ==
    /\ Ready
    /\ hpc[i].pc = "removeToken"
    /\ store' = [store EXCEPT !.authToken = FALSE]
    /\ authToken' = FALSE
    /\ hpc' = [hpc EXCEPT ![i].pc = "settled", ![i].result = "null"]
    /\ UNCHANGED <<now, tabState, tabLocks, pendingRequests, recentlyProcessed,
                   cache, psu, waiters, clr, blockTasks, logTasks, serverVersion,
                   nobs, nops, calls, redirects, dashboardOpens, unhandled>>
    /\ UNCHANGED navVars
    /\ UNCHANGED moreVars

SUBSCRIPTION_PROMPT_MS == 600000

\* lines 1247-1254
HpcGetPrompt(i) ==
    /\ Ready
    /\ hpc[i].pc = "getPrompt"
    /\ IF store.lastSubscriptionPrompt = 0
          \/ now - store.lastSubscriptionPrompt > SUBSCRIPTION_PROMPT_MS
       THEN hpc' = [hpc EXCEPT ![i].pc = "setPrompt", ![i].entry.timestamp = now]
       ELSE hpc' = [hpc EXCEPT ![i].pc = "settled", ![i].result = "null"]
    /\ UNCHANGED <<now, authToken, tabState, tabLocks, pendingRequests, recentlyProcessed,
                   cache, store, psu, waiters, clr, blockTasks, logTasks, serverVersion,
                   nobs, nops, calls, redirects, dashboardOpens, unhandled>>
    /\ UNCHANGED navVars
    /\ UNCHANGED moreVars

\* lines 1251-1254
HpcSetPrompt(i) ==
    /\ Ready
    /\ hpc[i].pc = "setPrompt"
    /\ store' = [store EXCEPT !.lastSubscriptionPrompt = hpc[i].entry.timestamp]
    /\ dashboardOpens' = dashboardOpens + 1
    /\ hpc' = [hpc EXCEPT ![i].pc = "settled", ![i].result = "null",
                          ![i].entry = NoEntry]
    /\ UNCHANGED <<now, authToken, tabState, tabLocks, pendingRequests, recentlyProcessed,
                   cache, psu, waiters, clr, blockTasks, logTasks, serverVersion,
                   nobs, nops, calls, redirects, unhandled>>
    /\ UNCHANGED navVars
    /\ UNCHANGED moreVars

\* line 1264
NewerVersion(dataVersion, localVersion) == localVersion = 0 \/ dataVersion > localVersion

\* lines 1263-1265
HpcGetLocalVersion(i) ==
    /\ Ready
    /\ hpc[i].pc = "getLocalVersion"
    /\ IF NewerVersion(hpc[i].data.cacheVersion, store.cacheVersion)
       THEN /\ hpc' = [hpc EXCEPT ![i].pc = "clearing"]
            /\ clr' = [clr EXCEPT ![i].pc = "snapshot"]
       ELSE /\ hpc' = [hpc EXCEPT ![i] = AfterInvalidation(hpc[i])]
            /\ UNCHANGED clr
    /\ UNCHANGED <<now, authToken, tabState, tabLocks, pendingRequests, recentlyProcessed,
                   cache, store, psu, waiters, blockTasks, logTasks, serverVersion,
                   nobs, nops, calls, redirects, dashboardOpens, unhandled>>
    /\ UNCHANGED navVars
    /\ UNCHANGED moreVars

\* line 1266
HpcSetVersion(i) ==
    /\ Ready
    /\ hpc[i].pc = "setVersion"
    /\ store' = [store EXCEPT !.cacheVersion = hpc[i].data.cacheVersion]
    /\ hpc' = [hpc EXCEPT ![i] = AfterInvalidation(hpc[i])]
    /\ UNCHANGED <<now, authToken, tabState, tabLocks, pendingRequests, recentlyProcessed,
                   cache, psu, waiters, clr, blockTasks, logTasks, serverVersion,
                   nobs, nops, calls, redirects, dashboardOpens, unhandled>>
    /\ UNCHANGED navVars
    /\ UNCHANGED moreVars

\* setCache, lines 228-229: the entry is stamped with the time and the stored version
NewEntry(data, cacheVersion) ==
    [decision |-> data.decision, reason |-> data.reason, timestamp |-> now,
     cacheVersion |-> cacheVersion]

HpcSetCacheGet(i) ==
    /\ Ready
    /\ hpc[i].pc = "setCacheGet"
    /\ hpc' = [hpc EXCEPT ![i].pc = "setCacheSet",
                          ![i].entry = NewEntry(hpc[i].data, store.cacheVersion)]
    /\ UNCHANGED <<now, authToken, tabState, tabLocks, pendingRequests, recentlyProcessed,
                   cache, store, psu, waiters, clr, blockTasks, logTasks, serverVersion,
                   nobs, nops, calls, redirects, dashboardOpens, unhandled>>
    /\ UNCHANGED navVars
    /\ UNCHANGED moreVars

\* setCache, line 231, and the return of line 1296
HpcSetCacheSet(i) ==
    /\ Ready
    /\ hpc[i].pc = "setCacheSet"
    /\ cache' = [cache EXCEPT ![normalizeUrl(psu[i].url)] = hpc[i].entry]
    /\ hpc' = [hpc EXCEPT ![i].pc = "settled", ![i].result = "data",
                          ![i].entry = NoEntry]
    /\ UNCHANGED <<now, authToken, tabState, tabLocks, pendingRequests, recentlyProcessed,
                   store, psu, waiters, clr, blockTasks, logTasks, serverVersion,
                   nobs, nops, calls, redirects, dashboardOpens, unhandled>>
    /\ UNCHANGED navVars
    /\ UNCHANGED moreVars

\* setCache, line 228: chrome.storage.local.get('cacheVersion') rejects outside
\* the try of lines 230-234; setCache throws and the catch of lines 1297-1300
\* throws again
HpcSetCacheGetFails(i) ==
    /\ Ready
    /\ hpc[i].pc = "setCacheGet"
    /\ hpc' = [hpc EXCEPT ![i].pc = "settled", ![i].result = "rejected"]
    /\ UNCHANGED <<now, authToken, tabState, tabLocks, pendingRequests, recentlyProcessed,
                   cache, store, psu, waiters, clr, blockTasks, logTasks, serverVersion,
                   nobs, nops, calls, redirects, dashboardOpens, unhandled>>
    /\ UNCHANGED navVars
    /\ UNCHANGED moreVars

\* setCache, lines 231-234: chrome.storage.local.set rejects and is caught
HpcSetCacheSetFails(i) ==
    /\ Ready
    /\ hpc[i].pc = "setCacheSet"
    /\ hpc' = [hpc EXCEPT ![i].pc = "settled", ![i].result = "data",
                          ![i].entry = NoEntry]
    /\ UNCHANGED <<now, authToken, tabState, tabLocks, pendingRequests, recentlyProcessed,
                   cache, store, psu, waiters, clr, blockTasks, logTasks, serverVersion,
                   nobs, nops, calls, redirects, dashboardOpens, unhandled>>
    /\ UNCHANGED navVars
    /\ UNCHANGED moreVars

(***************************************************************************)
(* handlePageCheck after its request promise has settled (lines 1306-1337) *)
(* and, after it, every caller that awaited that promise (lines 1193-1201):*)
(* promise reactions run in the order they were registered, the owner's    *)
(* first.                                                                  *)
(***************************************************************************)
Range(q) == {q[n] : n \in 1..Len(q)}

\* lines 1315 and 1329: data.reason || default
ReasonOr(reason, default) == IF reason = "" THEN default ELSE reason

\* lines 1308-1333: what the owner logs and whether it blocks
OwnerLogs(i) ==
    IF hpc[i].result = "data" /\ hpc[i].data.decision = "BLOCK"
    THEN {NewLog("own", i, "BLOCK", psu[i].url, FALSE,
                 ReasonOr(hpc[i].data.reason, "Blocked by Beacon"))}
    ELSE IF hpc[i].result = "data" /\ hpc[i].data.decision = "ALLOW"
    THEN {NewLog("own", i, "ALLOW", psu[i].url, FALSE,
                 ReasonOr(hpc[i].data.reason, "Allowed"))}
    ELSE {}

\* an owner that calls blockPage whatever the decision it received
OwnerBlocksAnyDecision(i) ==
    IF hpc[i].result = "data"
    THEN {NewBlock("own", i, psu[i].tab, psu[i].url)}
    ELSE {}

OwnerBlocks(i) ==
    IF hpc[i].result = "data" /\ hpc[i].data.decision = "BLOCK"
    THEN {NewBlock("own", i, psu[i].tab, psu[i].url)}
    ELSE {}

\* lines 1193-1197: a caller that awaited the promise blocks on a BLOCK result
WaiterBlocks(i) ==
    IF hpc[i].result = "data" /\ hpc[i].data.decision = "BLOCK"
    THEN {NewBlock("wait", w, psu[w].tab, psu[w].url) : w \in Range(waiters[i])}
    ELSE {}

\* lines 1198-1204: after a rejection every caller that awaited goes on to
\* start its own request
RetryAfterFailure(h, i) ==
    [w \in Obs |->
        IF w \in Range(waiters[i])
        THEN StartRequest(h, w)[w]
        ELSE h[w]]

Finished(rec) == [NoHpc EXCEPT !.pc = "done", !.status = rec.status,
                                !.result = rec.result, !.data = rec.data]

\* a cleanup step that leaves the registration in place
KeepRegistered(pending, cacheKey) == pending

\* line 1334: pendingRequests.delete(cacheKey)
Unregister(pending, cacheKey) == [pending EXCEPT ![cacheKey] = 0]

Settle(i) ==
    /\ hpc[i].pc = "settled"
    /\ LET cacheKey == normalizeUrl(psu[i].url)
           ws == waiters[i]
           rejected == hpc[i].result = "rejected"
           h1 == [hpc EXCEPT ![i] = Finished(hpc[i])]
       IN
       /\ logTasks' = logTasks \cup OwnerLogs(i)
       /\ blockTasks' = blockTasks \cup OwnerBlocks(i) \cup WaiterBlocks(i)
       /\ unhandled' = IF rejected THEN unhandled \cup {i} ELSE unhandled
       /\ waiters' = [waiters EXCEPT ![i] = <<>>]
       /\ IF rejected /\ ws # <<>>
          THEN /\ hpc' = RetryAfterFailure(h1, i)
               /\ pendingRequests' = [pendingRequests EXCEPT ![cacheKey] = ws[Len(ws)]]
               /\ calls' = [calls EXCEPT ![cacheKey] = @ + Len(ws)]
          ELSE /\ hpc' = [w \in Obs |-> IF w \in Range(ws) THEN Finished(h1[w]) ELSE h1[w]]
               /\ pendingRequests' = Unregister(pendingRequests, cacheKey)
               /\ UNCHANGED calls
    /\ UNCHANGED <<now, authToken, tabState, tabLocks, recentlyProcessed, cache, store,
                   psu, clr, serverVersion, nobs, nops, redirects, dashboardOpens>>
    /\ UNCHANGED navVars
    /\ UNCHANGED moreVars

(***************************************************************************)
(* blockPage (lines 1149-1176).                                            *)
(***************************************************************************)
Marked(state, url) ==
    IF state.present THEN [state EXCEPT !.blockedUrl = url]
    ELSE [FreshTabState EXCEPT !.blockedUrl = url]

\* isShortsUrl (lines 911-934)
isShortsUrl(url) ==
    /\ Parses(url)
    /\ \/ Len(url.path) >= 2 /\ url.path[1] \in {"shorts", "reels", "reel"}
       \/ \E i \in 1..Len(url.host) : HasAt(url.host, i, <<"tiktok", "com">>)

Redirect(task) == [tab |-> task.tab, url |-> task.url, kind |-> task.kind, id |-> task.id]

\* lines 1151-1172
BlockPage(task) ==
    /\ Ready
    /\ task \in blockTasks
    /\ task.stage = "pause"
    /\ IF store.blockingPaused
       THEN /\ blockTasks' = blockTasks \ {task}
            /\ UNCHANGED <<tabState, redirects>>
       ELSE /\ tabState' = [tabState EXCEPT ![task.tab] = Marked(@, task.url)]
            /\ IF isShortsUrl(task.url)
               THEN /\ blockTasks' = (blockTasks \ {task}) \cup
                                         {[task EXCEPT !.stage = "remove"]}
                    /\ UNCHANGED redirects
               ELSE /\ blockTasks' = blockTasks \ {task}
                    /\ redirects' = redirects \cup {Redirect(task)}
    /\ UNCHANGED <<now, authToken, tabLocks, pendingRequests, recentlyProcessed, cache,
                   store, psu, hpc, waiters, clr, logTasks, serverVersion, nobs, nops,
                   calls, dashboardOpens, unhandled>>
    /\ UNCHANGED navVars
    /\ UNCHANGED moreVars

\* lines 1167-1172 for a short-form url
BlockRemoveSession(task) ==
    /\ Ready
    /\ task \in blockTasks
    /\ task.stage = "remove"
    /\ blockTasks' = blockTasks \ {task}
    /\ sessionStore' = [sessionStore EXCEPT ![task.tab] = NoSession]
    /\ redirects' = redirects \cup {Redirect(task)}
    /\ UNCHANGED <<now, authToken, tabState, tabLocks, pendingRequests, recentlyProcessed,
                   cache, store, psu, hpc, waiters, clr, logTasks, serverVersion, nobs,
                   nops, calls, dashboardOpens, unhandled>>
    /\ UNCHANGED <<upd, nnav, shortsSessionBuffer, shortsTasks>>
    /\ UNCHANGED moreVars

(***************************************************************************)
(* addToLocalBlockLog (lines 330-381).                                     *)
(***************************************************************************)
MAX_BLOCK_LOG_SIZE == 1000
LOG_DEDUP_MS == 10000

\* lines 333-340
LogAllowGet(task) ==
    /\ Ready
    /\ task \in logTasks
    /\ task.stage = "allow"
    /\ logTasks' = IF store.logAllowDecisions
                   THEN (logTasks \ {task}) \cup {[task EXCEPT !.stage = "read"]}
                   ELSE logTasks \ {task}
    /\ UNCHANGED <<now, authToken, tabState, tabLocks, pendingRequests, recentlyProcessed,
                   cache, store, psu, hpc, waiters, clr, blockTasks, serverVersion, nobs,
                   nops, calls, redirects, dashboardOpens, unhandled>>
    /\ UNCHANGED navVars
    /\ UNCHANGED moreVars

\* lines 349-359
IsDuplicate(blockLog, task) ==
    /\ Len(blockLog) > 0
    /\ blockLog[1].url = task.url
    /\ blockLog[1].reason = task.reason
    /\ blockLog[1].decision = task.decision
    /\ now - blockLog[1].timestamp < LOG_DEDUP_MS

\* a slice that keeps the last MAX_BLOCK_LOG_SIZE entries
UnshiftKeepOldest(blockLog, task) ==
    LET longer == <<[url |-> task.url, reason |-> task.reason,
                     decision |-> task.decision, timestamp |-> now,
                     count |-> task.count, duration |-> task.duration]>> \o blockLog
    IN IF Len(longer) > MAX_BLOCK_LOG_SIZE
       THEN SubSeq(longer, 2, MAX_BLOCK_LOG_SIZE + 1) ELSE longer

\* lines 362-375
Unshift(blockLog, task) ==
    LET longer == <<[url |-> task.url, reason |-> task.reason,
                     decision |-> task.decision, timestamp |-> now,
                     count |-> task.count, duration |-> task.duration]>> \o blockLog
    IN IF Len(longer) > MAX_BLOCK_LOG_SIZE
       THEN SubSeq(longer, 1, MAX_BLOCK_LOG_SIZE) ELSE longer

\* lines 344-375
LogGet(task) ==
    /\ Ready
    /\ task \in logTasks
    /\ task.stage = "read"
    /\ logTasks' = IF IsDuplicate(store.localBlockLog, task)
                   THEN logTasks \ {task}
                   ELSE (logTasks \ {task}) \cup
                        {[task EXCEPT !.stage = "write",
                                      !.blockLog = Unshift(store.localBlockLog, task)]}
    /\ UNCHANGED <<now, authToken, tabState, tabLocks, pendingRequests, recentlyProcessed,
                   cache, store, psu, hpc, waiters, clr, blockTasks, serverVersion, nobs,
                   nops, calls, redirects, dashboardOpens, unhandled>>
    /\ UNCHANGED navVars
    /\ UNCHANGED moreVars

\* line 377
LogSet(task) ==
    /\ Ready
    /\ task \in logTasks
    /\ task.stage = "write"
    /\ store' = [store EXCEPT !.localBlockLog = task.blockLog]
    /\ logTasks' = logTasks \ {task}
    /\ UNCHANGED <<now, authToken, tabState, tabLocks, pendingRequests, recentlyProcessed,
                   cache, psu, hpc, waiters, clr, blockTasks, serverVersion, nobs,
                   nops, calls, redirects, dashboardOpens, unhandled>>
    /\ UNCHANGED navVars
    /\ UNCHANGED moreVars

(***************************************************************************)
(* chrome.runtime.onMessageExternal: the sender check (lines 646-663).     *)
(***************************************************************************)
\* IS_DEV is false (config.js line 4): the two production origins
TRUSTED_ORIGINS == { [scheme |-> "https", host |-> <<"beaconblocker", "vercel", "app">>],
                     [scheme |-> "https", host |-> <<"chrome-test-dashboard", "vercel", "app">>] }

NullOrigin == [scheme |-> "null", host |-> <<>>]

\* lines 652-657: sender.url ? new URL(sender.url).origin : null, and null when
\* new URL throws; the origin of a url with no "//" after its scheme is opaque
\* (the string "null")
senderOrigin(url) ==
    IF ~Parses(url) \/ url.prefix # "" THEN NullOrigin
    ELSE [scheme |-> url.scheme, host |-> url.host]

\* a check that lets a message without an origin through
UnauthorizedWhenKnown(url) ==
    senderOrigin(url) # NullOrigin /\ senderOrigin(url) \notin TRUSTED_ORIGINS

\* line 659: !senderOrigin || !TRUSTED_ORIGINS.includes(senderOrigin)
Unauthorized(url) ==
    senderOrigin(url) = NullOrigin \/ senderOrigin(url) \notin TRUSTED_ORIGINS

\* what sendResponse was called with: the success field ("absent" when the
\* response has none) and the error field; NoReply while it has not been called
Reply(success, error) == [success |-> success, error |-> error]
NoReply == Reply("none", "")

(***************************************************************************)
(* The block-log messages of the dashboard (lines 609-613, 438-458):       *)
(* deleteSingleLog (lines 423-433) and clearLocalBlockLog (lines 413-421). *)
(***************************************************************************)
\* line 427
WithoutTimestamp(blockLog, timestamp) ==
    SelectSeq(blockLog, LAMBDA log : log.timestamp # timestamp)

\* DELETE_SINGLE_LOG arrives with the timestamp of an entry of the log
DeleteSingleLog(timestamp) ==
    /\ Ready
    /\ nops < MaxUserOps
    /\ authToken
    /\ \E n \in 1..Len(store.localBlockLog) : store.localBlockLog[n].timestamp = timestamp
    /\ nops' = nops + 1
    /\ logTasks' = logTasks \cup
           {[NewLog("delete", nops + 1, "", NullUrl, FALSE, "")
                EXCEPT !.stage = "delRead", !.timestamp = timestamp]}
    /\ UNCHANGED <<now, authToken, tabState, tabLocks, pendingRequests, recentlyProcessed,
                   cache, store, psu, hpc, waiters, clr, blockTasks, serverVersion, nobs,
                   calls, redirects, dashboardOpens, unhandled>>
    /\ UNCHANGED navVars
    /\ UNCHANGED moreVars

\* lines 425-427
DelGet(task) ==
    /\ Ready
    /\ task \in logTasks
    /\ task.stage = "delRead"
    /\ logTasks' = (logTasks \ {task}) \cup
           {[task EXCEPT !.stage = "delWrite",
                         !.blockLog = WithoutTimestamp(store.localBlockLog, task.timestamp)]}
    /\ UNCHANGED <<now, authToken, tabState, tabLocks, pendingRequests, recentlyProcessed,
                   cache, store, psu, hpc, waiters, clr, blockTasks, serverVersion, nobs,
                   nops, calls, redirects, dashboardOpens, unhandled>>
    /\ UNCHANGED navVars
    /\ UNCHANGED moreVars

\* line 428, and line 452 for a message that came from outside
DelSet(task) ==
    /\ Ready
    /\ task \in logTasks
    /\ task.stage = "delWrite"
    /\ store' = [store EXCEPT !.localBlockLog = task.blockLog]
    /\ logTasks' = logTasks \ {task}
    /\ external' = IF task.kind = "external"
                   THEN [external EXCEPT ![task.id].reply = Reply("true", "")]
                   ELSE external
    /\ UNCHANGED <<now, authToken, tabState, tabLocks, pendingRequests, recentlyProcessed,
                   cache, psu, hpc, waiters, clr, blockTasks, serverVersion, nobs,
                   nops, calls, redirects, dashboardOpens, unhandled>>
    /\ UNCHANGED navVars
    /\ UNCHANGED <<cleanup, arg, res>>

\* CLEAR_BLOCK_LOG: line 415
ClearBlockLog ==
    /\ Ready
    /\ nops < MaxUserOps
    /\ authToken
    /\ store.localBlockLog # <<>>
    /\ nops' = nops + 1
    /\ store' = [store EXCEPT !.localBlockLog = <<>>]
    /\ UNCHANGED <<now, authToken, tabState, tabLocks, pendingRequests, recentlyProcessed,
                   cache, psu, hpc, waiters, clr, blockTasks, logTasks, serverVersion, nobs,
                   calls, redirects, dashboardOpens, unhandled>>
    /\ UNCHANGED navVars
    /\ UNCHANGED moreVars

(***************************************************************************)
(* cleanupCache (lines 237-257), called at startup (line 260) and by a     *)
(* timer (lines 263-266).                                                  *)
(***************************************************************************)
\* the host labels of the model that begin with the letters "http"
HttpLabels == {"httpbin"}

\* line 245: key.startsWith('http'), for a key of the decision cache
StartsWithHttp(key) ==
    IF key.scheme # "" THEN key.scheme \in {"http", "https"}
    ELSE Len(key.host) > 0 /\ key.host[1] \in HttpLabels

\* the keys that hold a decision-cache entry
Cached == {k \in Keys : cache[k] # NoEntry}

\* lines 244-246
cacheEntries == {k \in Cached : StartsWithHttp(k)}

\* lines 250-251: S is what slice(0, length - MAX_CACHE_SIZE) takes from the
\* entries sorted by timestamp, oldest first
OldestExcess(S) ==
    /\ S \subseteq cacheEntries
    /\ Cardinality(S) = Cardinality(cacheEntries) - MAX_CACHE_SIZE
    /\ \A k \in S, m \in cacheEntries \ S : cache[k].timestamp <= cache[m].timestamp

\* lines 260 and 264
CleanupCache ==
    /\ Ready
    /\ cleanup.pc = "idle"
    /\ cleanup' = [cleanup EXCEPT !.pc = "get"]
    /\ UNCHANGED <<now, authToken, tabState, tabLocks, pendingRequests, recentlyProcessed,
                   cache, store, psu, hpc, waiters, clr, blockTasks, logTasks,
                   serverVersion, nobs, nops, calls, redirects, dashboardOpens, unhandled>>
    /\ UNCHANGED navVars
    /\ UNCHANGED <<arg, res, external>>

\* lines 240-251: chrome.storage.local.get(null) has answered
CleanupGet ==
    /\ Ready
    /\ cleanup.pc = "get"
    /\ IF Cardinality(cacheEntries) > MAX_CACHE_SIZE
       THEN \E S \in SUBSET cacheEntries :
               /\ OldestExcess(S)
               /\ cleanup' = [pc |-> "remove", toRemove |-> S]
       ELSE cleanup' = [pc |-> "done", toRemove |-> {}]
    /\ UNCHANGED <<now, authToken, tabState, tabLocks, pendingRequests, recentlyProcessed,
                   cache, store, psu, hpc, waiters, clr, blockTasks, logTasks,
                   serverVersion, nobs, nops, calls, redirects, dashboardOpens, unhandled>>
    /\ UNCHANGED navVars
    /\ UNCHANGED <<arg, res, external>>

\* line 252: chrome.storage.local.remove has answered
CleanupRemove ==
    /\ Ready
    /\ cleanup.pc = "remove"
    /\ cache' = [k \in Keys |-> IF k \in cleanup.toRemove THEN NoEntry ELSE cache[k]]
    /\ cleanup' = [pc |-> "done", toRemove |-> cleanup.toRemove]
    /\ UNCHANGED <<now, authToken, tabState, tabLocks, pendingRequests, recentlyProcessed,
                   store, psu, hpc, waiters, clr, blockTasks, logTasks,
                   serverVersion, nobs, nops, calls, redirects, dashboardOpens, unhandled>>
    /\ UNCHANGED navVars
    /\ UNCHANGED <<arg, res, external>>

(***************************************************************************)
(* handleClearLocalCache (lines 862-909).                                  *)
(***************************************************************************)
\* lines 867-873: the snapshot of the reserved keys and the keys to remove
ClrSnapshot(c) ==
    /\ Ready
    /\ clr[c].pc = "snapshot"
    /\ LET keysToRemove == {k \in Keys : cache[k] # NoEntry}
           otherKeys == (IF store.logAllowDecisions THEN {"logAllowDecisions"} ELSE {})
                        \cup (IF store.lastSubscriptionPrompt # 0
                              THEN {"lastSubscriptionPrompt"} ELSE {})
           sessionKeys == {t \in Tabs : sessionStore[t] # NoSession}
       IN clr' = [clr EXCEPT ![c] =
                    [pc |-> IF keysToRemove = {} /\ otherKeys = {} /\ sessionKeys = {}
                            THEN "post" ELSE "remove",
                     diskState |-> store, keysToRemove |-> keysToRemove,
                     otherKeys |-> otherKeys, sessionKeys |-> sessionKeys,
                     recovery |-> {}]]
    /\ UNCHANGED <<now, authToken, tabState, tabLocks, pendingRequests, recentlyProcessed,
                   cache, store, psu, hpc, waiters, blockTasks, logTasks, serverVersion,
                   nobs, nops, calls, redirects, dashboardOpens, unhandled>>
    /\ UNCHANGED navVars
    /\ UNCHANGED moreVars

\* lines 876-878
ClrRemove(c) ==
    /\ Ready
    /\ clr[c].pc = "remove"
    /\ cache' = [k \in Keys |-> IF k \in clr[c].keysToRemove THEN NoEntry ELSE cache[k]]
    /\ store' = [store EXCEPT
                   !.logAllowDecisions =
                       IF "logAllowDecisions" \in clr[c].otherKeys THEN FALSE ELSE @,
                   !.lastSubscriptionPrompt =
                       IF "lastSubscriptionPrompt" \in clr[c].otherKeys THEN 0 ELSE @]
    /\ sessionStore' = [t \in Tabs |->
                           IF t \in clr[c].sessionKeys THEN NoSession ELSE sessionStore[t]]
    /\ clr' = [clr EXCEPT ![c].pc = "post", ![c].keysToRemove = {}, ![c].otherKeys = {},
                          ![c].sessionKeys = {}]
    /\ UNCHANGED <<now, authToken, tabState, tabLocks, pendingRequests, recentlyProcessed,
                   psu, hpc, waiters, blockTasks, logTasks, serverVersion,
                   nobs, nops, calls, redirects, dashboardOpens, unhandled>>
    /\ UNCHANGED <<upd, nnav, shortsSessionBuffer, shortsTasks>>
    /\ UNCHANGED moreVars

\* lines 885-889
RecoveryPayload(diskState, postClearState) ==
    (IF diskState.authToken /\ ~postClearState.authToken THEN {"authToken"} ELSE {})
    \cup (IF diskState.localBlockLog # <<>> /\ postClearState.localBlockLog = <<>>
          THEN {"localBlockLog"} ELSE {})
    \cup (IF diskState.cacheVersion # 0 /\ postClearState.cacheVersion = 0
          THEN {"cacheVersion"} ELSE {})

\* lines 896-899
ResetTabState == [t \in Tabs |-> IF tabState[t].present THEN FreshTabState ELSE tabState[t]]

\* lines 882-899 when nothing has to be restored
ClrPost(c) ==
    /\ Ready
    /\ clr[c].pc = "post"
    /\ LET recovery == RecoveryPayload(clr[c].diskState, store) IN
       IF recovery = {}
       THEN /\ clr' = [clr EXCEPT ![c] = [NoClr EXCEPT !.pc = "notify"]]
            /\ tabState' = ResetTabState
            /\ recentlyProcessed' = [k \in Keys |-> 0]
       ELSE /\ clr' = [clr EXCEPT ![c].pc = "recover", ![c].recovery = recovery]
            /\ UNCHANGED <<tabState, recentlyProcessed>>
    /\ UNCHANGED <<now, authToken, tabLocks, pendingRequests, cache, store,
                   psu, hpc, waiters, blockTasks, logTasks, serverVersion,
                   nobs, nops, calls, redirects, dashboardOpens, unhandled>>
    /\ UNCHANGED navVars
    /\ UNCHANGED moreVars

\* lines 891-899; the storage.onChanged listener (lines 512-516) sees a restored token
ClrRecover(c) ==
    /\ Ready
    /\ clr[c].pc = "recover"
    /\ store' = [store EXCEPT
                   !.authToken = IF "authToken" \in clr[c].recovery THEN TRUE ELSE @,
                   !.localBlockLog = IF "localBlockLog" \in clr[c].recovery
                                     THEN clr[c].diskState.localBlockLog ELSE @,
                   !.cacheVersion = IF "cacheVersion" \in clr[c].recovery
                                    THEN clr[c].diskState.cacheVersion ELSE @]
    /\ authToken' = IF "authToken" \in clr[c].recovery THEN TRUE ELSE authToken
    /\ clr' = [clr EXCEPT ![c] = [NoClr EXCEPT !.pc = "notify"]]
    /\ tabState' = ResetTabState
    /\ recentlyProcessed' = [k \in Keys |-> 0]
    /\ UNCHANGED <<now, tabLocks, pendingRequests, cache,
                   psu, hpc, waiters, blockTasks, logTasks, serverVersion,
                   nobs, nops, calls, redirects, dashboardOpens, unhandled>>
    /\ UNCHANGED navVars
    /\ UNCHANGED moreVars

\* lines 902-904: notifyDashboard has answered; the caller of line 1265 goes on
ClrNotify(c) ==
    /\ Ready
    /\ clr[c].pc = "notify"
    /\ clr' = [clr EXCEPT ![c] = NoClr]
    /\ hpc' = IF c > 0 THEN [hpc EXCEPT ![c].pc = "setVersion"] ELSE hpc
    /\ UNCHANGED <<now, authToken, tabState, tabLocks, pendingRequests, recentlyProcessed,
                   cache, store, psu, waiters, blockTasks, logTasks, serverVersion,
                   nobs, nops, calls, redirects, dashboardOpens, unhandled>>
    /\ UNCHANGED navVars
    /\ UNCHANGED moreVars

(***************************************************************************)
(* Short-form sessions: handleShortsViewed (lines 953-1007),               *)
(* endShortsSession (lines 1022-1070) and the periodic write of the        *)
(* buffered sessions (lines 1010-1021).                                    *)
(***************************************************************************)
\* lines 956-961: urlObj.origin + urlObj.pathname
ShortsNormalized(url) ==
    IF Parses(url) THEN MkUrl(url.scheme, url.host, url.path, url.slash, "", "") ELSE url

\* getShortsPlatform (lines 935-941)
getShortsPlatform(url) ==
    LET Has(w) == \E i \in 1..Len(url.path) :
                     url.path[i] = w /\ (i < Len(url.path) \/ url.slash)
    IN IF Has("shorts") THEN "Shorts"
       ELSE IF Has("reels") \/ Has("reel") THEN "Reels"
       ELSE IF \E i \in 1..Len(url.host) : HasAt(url.host, i, <<"tiktok", "com">>)
            THEN "TikTok"
       ELSE "Short-form"

\* formatDuration (lines 942-947): the minutes (0 when the text has none) and
\* the seconds the text shows
formatDuration(totalSeconds) ==
    IF totalSeconds < 60 THEN <<0, totalSeconds>>
    ELSE <<totalSeconds \div 60, totalSeconds % 60>>

\* Math.round(ms / 1000) for ms >= 0
RoundSeconds(ms) == (ms + 500) \div 1000

\* lines 982-986
Visit(session, normalizedUrl) ==
    IF normalizedUrl \in session.visitedUrls THEN session
    ELSE [session EXCEPT !.visitedUrls = session.visitedUrls \cup {normalizedUrl},
                         !.count = Cardinality(session.visitedUrls \cup {normalizedUrl})]

\* lines 990-997
NewSession(url) ==
    [active |-> TRUE, count |-> 1, startTime |-> now, startUrl |-> url,
     visitedUrls |-> {ShortsNormalized(url)}, platform |-> getShortsPlatform(url)]

ShortsTask(kind, n, t, u, stage, session) ==
    [kind |-> kind, id |-> n, tab |-> t, url |-> u, stage |-> stage, session |-> session]

\* handleShortsViewed up to its first suspension (lines 953-987)
StartViewed(n, t, u) ==
    IF shortsSessionBuffer[t] # NoSession
    THEN /\ shortsSessionBuffer' =
                [shortsSessionBuffer EXCEPT ![t] = Visit(@, ShortsNormalized(u))]
         /\ UNCHANGED shortsTasks
    ELSE /\ shortsTasks' = shortsTasks \cup {ShortsTask("viewed", n, t, u, "get", NoSession)}
         /\ UNCHANGED shortsSessionBuffer

\* endShortsSession up to its first suspension (lines 1022-1035)
StartEnd(n, t) ==
    IF shortsSessionBuffer[t] # NoSession
    THEN /\ shortsSessionBuffer' = [shortsSessionBuffer EXCEPT ![t] = NoSession]
         /\ shortsTasks' = shortsTasks \cup
                {ShortsTask("end", n, t, NullUrl, "remove", shortsSessionBuffer[t])}
    ELSE /\ shortsTasks' = shortsTasks \cup {ShortsTask("end", n, t, NullUrl, "get", NoSession)}
         /\ UNCHANGED shortsSessionBuffer

\* lines 1132-1139: the un-awaited session calls of tabs.onUpdated
SessionCalls(n, t, u, changed) ==
    IF ~changed THEN UNCHANGED <<shortsSessionBuffer, shortsTasks>>
    ELSE IF isShortsUrl(u) THEN StartViewed(n, t, u)
    ELSE StartEnd(n, t)

\* a call that never takes the stored session
NeverRehydrated(stored) == FALSE

\* line 970: stored[sessionKey]?.active
Rehydrated(stored) == stored.active

\* handleShortsViewed, lines 970-1000: the stored session has been read
ViewedGet(task) ==
    /\ Ready
    /\ task \in shortsTasks
    /\ task.kind = "viewed" /\ task.stage = "get"
    /\ LET stored == sessionStore[task.tab] IN
       IF Rehydrated(stored)
       THEN /\ shortsSessionBuffer' = [shortsSessionBuffer EXCEPT ![task.tab] =
                                          Visit(stored, ShortsNormalized(task.url))]
            /\ shortsTasks' = shortsTasks \ {task}
       ELSE /\ shortsSessionBuffer' = [shortsSessionBuffer EXCEPT ![task.tab] =
                                          NewSession(task.url)]
            /\ shortsTasks' = (shortsTasks \ {task}) \cup
                   {[task EXCEPT !.stage = "set", !.session = NewSession(task.url)]}
    /\ UNCHANGED <<now, authToken, tabState, tabLocks, pendingRequests, recentlyProcessed,
                   cache, store, psu, hpc, waiters, clr, blockTasks, logTasks,
                   serverVersion, nobs, nops, calls, redirects, dashboardOpens, unhandled>>
    /\ UNCHANGED <<upd, nnav, sessionStore>>
    /\ UNCHANGED moreVars

\* handleShortsViewed, lines 1000-1005: the new session has been stored
ViewedSet(task) ==
    /\ Ready
    /\ task \in shortsTasks
    /\ task.kind = "viewed" /\ task.stage = "set"
    /\ sessionStore' = [sessionStore EXCEPT ![task.tab] = task.session]
    /\ shortsTasks' = shortsTasks \ {task}
    /\ UNCHANGED <<now, authToken, tabState, tabLocks, pendingRequests, recentlyProcessed,
                   cache, store, psu, hpc, waiters, clr, blockTasks, logTasks,
                   serverVersion, nobs, nops, calls, redirects, dashboardOpens, unhandled>>
    /\ UNCHANGED <<upd, nnav, shortsSessionBuffer>>
    /\ UNCHANGED moreVars

\* endShortsSession, lines 1028-1035: the stored session has been read
EndGet(task) ==
    /\ Ready
    /\ task \in shortsTasks
    /\ task.kind = "end" /\ task.stage = "get"
    /\ LET session == sessionStore[task.tab] IN
       IF session.active
       THEN /\ shortsSessionBuffer' = [shortsSessionBuffer EXCEPT ![task.tab] = NoSession]
            /\ shortsTasks' = (shortsTasks \ {task}) \cup
                   {[task EXCEPT !.stage = "remove", !.session = session]}
       ELSE /\ shortsTasks' = shortsTasks \ {task}
            /\ UNCHANGED shortsSessionBuffer
    /\ UNCHANGED <<now, authToken, tabState, tabLocks, pendingRequests, recentlyProcessed,
                   cache, store, psu, hpc, waiters, clr, blockTasks, logTasks,
                   serverVersion, nobs, nops, calls, redirects, dashboardOpens, unhandled>>
    /\ UNCHANGED <<upd, nnav, sessionStore>>
    /\ UNCHANGED moreVars

\* lines 1038-1040
SessionCount(session) ==
    IF session.visitedUrls # {} THEN Cardinality(session.visitedUrls)
    ELSE IF session.count # 0 THEN session.count
    ELSE 1

\* lines 1042-1068: the entry endShortsSession hands to addToLocalBlockLog; count
\* and duration are the numbers its pageTitle shows (the TikTok title shows no
\* count)
SessionLog(task) ==
    [NewLog("end", task.id, "BLOCK", task.session.startUrl, FALSE, "Short-form Content")
        EXCEPT !.count = IF task.session.platform = "TikTok" THEN 0
                         ELSE SessionCount(task.session),
               !.duration = formatDuration(RoundSeconds(now - task.session.startTime))]

\* endShortsSession, lines 1035-1068: the stored session has been removed
EndRemove(task) ==
    /\ Ready
    /\ task \in shortsTasks
    /\ task.kind = "end" /\ task.stage = "remove"
    /\ sessionStore' = [sessionStore EXCEPT ![task.tab] = NoSession]
    /\ shortsTasks' = shortsTasks \ {task}
    /\ logTasks' = logTasks \cup {SessionLog(task)}
    /\ UNCHANGED <<now, authToken, tabState, tabLocks, pendingRequests, recentlyProcessed,
                   cache, store, psu, hpc, waiters, clr, blockTasks,
                   serverVersion, nobs, nops, calls, redirects, dashboardOpens, unhandled>>
    /\ UNCHANGED <<upd, nnav, shortsSessionBuffer>>
    /\ UNCHANGED moreVars

\* lines 1010-1021: the timer writes a buffered session to storage
PersistSession(t) ==
    /\ Ready
    /\ shortsSessionBuffer[t].active
    /\ sessionStore[t] # shortsSessionBuffer[t]
    /\ sessionStore' = [sessionStore EXCEPT ![t] = shortsSessionBuffer[t]]
    /\ UNCHANGED <<now, authToken, tabState, tabLocks, pendingRequests, recentlyProcessed,
                   cache, store, psu, hpc, waiters, clr, blockTasks, logTasks,
                   serverVersion, nobs, nops, calls, redirects, dashboardOpens, unhandled>>
    /\ UNCHANGED <<upd, nnav, shortsSessionBuffer, shortsTasks>>
    /\ UNCHANGED moreVars

(***************************************************************************)
(* chrome.tabs.onUpdated (lines 1073-1140): the tab reports a new url      *)
(* (changeInfo.url) and/or the start of a load (changeInfo.status ===      *)
(* 'loading'); tab.url is u.                                               *)
(***************************************************************************)
\* line 1075-1077
Unsuppressed(ts, t, changed) ==
    IF changed /\ ts[t].present THEN [ts EXCEPT ![t].blockedUrl = NullUrl] ELSE ts

OnUpdated(t, u, changed, loading) ==
    /\ Ready
    /\ nnav < MaxNav
    /\ nnav' = nnav + 1
    /\ LET n == nnav + 1
           ts == Unsuppressed(tabState, t, changed)
           rec == [NoUpd EXCEPT !.tab = t, !.url = u, !.changed = changed]
       IN
       IF loading /\ Parses(u) /\ isSafe(u.host)
       THEN /\ tabState' = [ts EXCEPT ![t] = FreshTabState]
            /\ upd' = [upd EXCEPT ![n] = [rec EXCEPT !.pc = "done"]]
            /\ UNCHANGED <<shortsSessionBuffer, shortsTasks>>
       ELSE IF loading
       THEN /\ tabState' = ts
            /\ upd' = [upd EXCEPT ![n] = [rec EXCEPT !.pc = "getCache"]]
            /\ UNCHANGED <<shortsSessionBuffer, shortsTasks>>
       ELSE /\ tabState' = ts
            /\ upd' = [upd EXCEPT ![n] = [rec EXCEPT !.pc = "done"]]
            /\ SessionCalls(n, t, u, changed)
    /\ UNCHANGED <<now, authToken, tabLocks, pendingRequests, recentlyProcessed,
                   cache, store, psu, hpc, waiters, clr, blockTasks, logTasks,
                   serverVersion, nobs, nops, calls, redirects, dashboardOpens, unhandled>>
    /\ UNCHANGED sessionStore
    /\ UNCHANGED moreVars

\* line 1090
UpdGetCache(n) ==
    /\ Ready
    /\ upd[n].pc = "getCache"
    /\ upd' = [upd EXCEPT ![n].pc = "getVersion", ![n].cached = getCache(upd[n].url)]
    /\ UNCHANGED <<now, authToken, tabState, tabLocks, pendingRequests, recentlyProcessed,
                   cache, store, psu, hpc, waiters, clr, blockTasks, logTasks,
                   serverVersion, nobs, nops, calls, redirects, dashboardOpens, unhandled>>
    /\ UNCHANGED <<nnav, shortsSessionBuffer, sessionStore, shortsTasks>>
    /\ UNCHANGED moreVars

\* lines 1091-1139
UpdDecide(n) ==
    /\ Ready
    /\ upd[n].pc = "getVersion"
    /\ upd' = [upd EXCEPT ![n].pc = "done", ![n].cached = NoEntry]
    /\ LET t == upd[n].tab
           url == upd[n].url
           cached == upd[n].cached
           valid == cacheValid(cached, store.cacheVersion)
       IN
       IF valid /\ cached.decision = "BLOCK"
             /\ tabState[t].present /\ tabState[t].blockedUrl = url
       THEN UNCHANGED <<tabState, logTasks, blockTasks, shortsSessionBuffer, shortsTasks>>
       ELSE /\ tabState' = [tabState EXCEPT ![t] = FreshTabState]
            /\ SessionCalls(n, t, url, upd[n].changed)
            /\ IF valid /\ cached.decision = "BLOCK"
               THEN /\ logTasks' = logTasks \cup
                           {NewLog("upd", n, "BLOCK", url, TRUE, cached.reason)}
                    /\ blockTasks' = blockTasks \cup {NewBlock("upd", n, t, url)}
               ELSE IF valid /\ cached.decision = "ALLOW"
               THEN /\ logTasks' = logTasks \cup
                           {NewLog("upd", n, "ALLOW", url, TRUE, cached.reason)}
                    /\ UNCHANGED blockTasks
               ELSE UNCHANGED <<logTasks, blockTasks>>
    /\ UNCHANGED <<now, authToken, tabLocks, pendingRequests, recentlyProcessed,
                   cache, store, psu, hpc, waiters, clr,
                   serverVersion, nobs, nops, calls, redirects, dashboardOpens, unhandled>>
    /\ UNCHANGED <<nnav, sessionStore>>
    /\ UNCHANGED moreVars

\* chrome.tabs.onRemoved (lines 1141-1146)
OnRemoved(t) ==
    /\ Ready
    /\ nnav < MaxNav
    /\ nnav' = nnav + 1
    /\ upd' = [upd EXCEPT ![nnav + 1] = [NoUpd EXCEPT !.pc = "done", !.tab = t]]
    /\ StartEnd(nnav + 1, t)
    /\ tabState' = [tabState EXCEPT ![t] = NoTabState]
    /\ UNCHANGED <<now, authToken, tabLocks, pendingRequests, recentlyProcessed,
                   cache, store, psu, hpc, waiters, clr, blockTasks, logTasks,
                   serverVersion, nobs, nops, calls, redirects, dashboardOpens, unhandled>>
    /\ UNCHANGED sessionStore
    /\ UNCHANGED moreVars

\* every tabs.onUpdated handler delivered so far has run to its end, and so has
\* every session call it started
NavsHandled ==
    /\ \A n \in Navs : upd[n].pc \in {"none", "done"}
    /\ shortsTasks = {}

(***************************************************************************)
(* Messages of the user interface (lines 556-577 and 604-607).             *)
(***************************************************************************)
SyncPause(paused) ==
    /\ Ready
    /\ nops < MaxUserOps
    /\ paused => clr[0].pc = "idle"
    /\ nops' = nops + 1
    /\ store' = [store EXCEPT !.blockingPaused = paused]
    /\ clr' = IF paused THEN [clr EXCEPT ![0].pc = "snapshot"] ELSE clr
    /\ UNCHANGED <<now, authToken, tabState, tabLocks, pendingRequests, recentlyProcessed,
                   cache, psu, hpc, waiters, blockTasks, logTasks, serverVersion,
                   nobs, calls, redirects, dashboardOpens, unhandled>>
    /\ UNCHANGED navVars
    /\ UNCHANGED moreVars

ClearLocalCache ==
    /\ Ready
    /\ nops < MaxUserOps
    /\ authToken
    /\ clr[0].pc = "idle"
    /\ nops' = nops + 1
    /\ clr' = [clr EXCEPT ![0].pc = "snapshot"]
    /\ UNCHANGED <<now, authToken, tabState, tabLocks, pendingRequests, recentlyProcessed,
                   cache, store, psu, hpc, waiters, blockTasks, logTasks, serverVersion,
                   nobs, calls, redirects, dashboardOpens, unhandled>>
    /\ UNCHANGED navVars
    /\ UNCHANGED moreVars

(***************************************************************************)
(* chrome.runtime.onMessageExternal (lines 643-701).  The payloads of the  *)
(* responses (logs, paused, version) are values read, not state, and are   *)
(* left out.  No entry of the log expires: auto-delete is off unless the   *)
(* user has turned it on (lines 313-322), so that GET_BLOCK_LOG writes     *)
(* nothing (lines 392-394).                                                *)
(***************************************************************************)
MessageTypes == {"GET_BLOCK_LOG", "CLEAR_BLOCK_LOG", "DELETE_SINGLE_LOG", "PING",
                 "GET_PAUSE_STATE", "SYNC_PAUSE", "OTHER"}

OnMessageExternal(senderUrl, type, paused, timestamp) ==
    /\ Ready
    /\ Len(external) < MaxExternal
    /\ LET n == Len(external) + 1
           answered(reply) == Append(external, [url |-> senderUrl, reply |-> reply])
       IN
       IF Unauthorized(senderUrl)
       THEN \* lines 659-663
            /\ external' = answered(Reply("false", "Unauthorized origin"))
            /\ UNCHANGED <<store, clr, logTasks>>
       ELSE CASE type = "GET_BLOCK_LOG" ->     \* lines 441-442
                 /\ external' = answered(Reply("true", ""))
                 /\ UNCHANGED <<store, clr, logTasks>>
            [] type = "CLEAR_BLOCK_LOG" ->     \* lines 446-447, 415
                 /\ store' = [store EXCEPT !.localBlockLog = <<>>]
                 /\ external' = answered(Reply("true", ""))
                 /\ UNCHANGED <<clr, logTasks>>
            [] type = "DELETE_SINGLE_LOG" ->   \* line 451; answered by DelSet
                 /\ logTasks' = logTasks \cup
                        {[NewLog("external", n, "", NullUrl, FALSE, "")
                             EXCEPT !.stage = "delRead", !.timestamp = timestamp]}
                 /\ external' = answered(NoReply)
                 /\ UNCHANGED <<store, clr>>
            [] type = "PING" ->                \* lines 671-674
                 /\ external' = answered(Reply("true", ""))
                 /\ UNCHANGED <<store, clr, logTasks>>
            [] type = "GET_PAUSE_STATE" ->     \* lines 677-682
                 /\ external' = answered(Reply("absent", ""))
                 /\ UNCHANGED <<store, clr, logTasks>>
            [] type = "SYNC_PAUSE" ->          \* lines 685-698
                 /\ paused => clr[0].pc = "idle"
                 /\ store' = [store EXCEPT !.blockingPaused = paused]
                 /\ clr' = IF paused THEN [clr EXCEPT ![0].pc = "snapshot"] ELSE clr
                 /\ external' = answered(Reply("true", ""))
                 /\ UNCHANGED logTasks
            [] OTHER ->                        \* line 700
                 /\ external' = answered(NoReply)
                 /\ UNCHANGED <<store, clr, logTasks>>
    /\ UNCHANGED <<now, authToken, tabState, tabLocks, pendingRequests, recentlyProcessed,
                   cache, psu, hpc, waiters, blockTasks, serverVersion, nobs, nops,
                   calls, redirects, dashboardOpens, unhandled>>
    /\ UNCHANGED navVars
    /\ UNCHANGED <<cleanup, arg, res>>

(***************************************************************************)
(* The environment: time passes.                                           *)
(***************************************************************************)
\* the clock advances by ms
Elapse(ms) ==
    /\ Ready
    /\ now + ms <= MaxTime
    /\ now' = now + ms
    /\ UNCHANGED <<authToken, tabState, tabLocks, pendingRequests, recentlyProcessed,
                   cache, store, psu, hpc, waiters, clr, blockTasks, logTasks,
                   serverVersion, nobs, nops, calls, redirects, dashboardOpens, unhandled>>
    /\ UNCHANGED navVars
    /\ UNCHANGED moreVars

Tick ==
    /\ Ready
    /\ now + TickMs <= MaxTime
    /\ now' = now + TickMs
    /\ UNCHANGED <<authToken, tabState, tabLocks, pendingRequests, recentlyProcessed,
                   cache, store, psu, hpc, waiters, clr, blockTasks, logTasks,
                   serverVersion, nobs, nops, calls, redirects, dashboardOpens, unhandled>>
    /\ UNCHANGED navVars
    /\ UNCHANGED moreVars

(***************************************************************************)
(* Steps shared by the specifications below.                               *)
(***************************************************************************)
Tasks ==
    \/ \E task \in blockTasks : BlockPage(task)
    \/ \E task \in logTasks : LogAllowGet(task)
    \/ \E task \in logTasks : LogGet(task)
    \/ \E task \in logTasks : LogSet(task)

Pipeline ==
    \/ \E i \in Obs : PsuFilter(i)
    \/ \E i \in Obs : PsuGetCache(i)
    \/ \E i \in Obs : PsuDecide(i)
    \/ \E i \in Obs : HpcSetCacheGet(i)
    \/ \E i \in Obs : HpcSetCacheSet(i)
    \/ \E i \in Obs : Settle(i)

Key(i) == normalizeUrl(psu[i].url)

\* the classifier call of invocation i is on the network
Calling(i) == hpc[i].pc = "fetch"

\* the locked body of invocation i is between its start and its return
InBody(i) == psu[i].pc \in {"pause", "getCache", "getVersion"}

\* invocation i leaves the cache lookup in this step (lines 819-851)
Decides(i) == psu[i].pc = "getVersion" /\ psu'[i].pc = "done"

Redirected(t) == \E r \in redirects : r.tab = t

PlainReason == "Distracting site"
TimedReason == "45 minutes left in study session"

(***************************************************************************)
(* SpecBurst: one tab sends up to MaxObs observations of one page, whose   *)
(* title changes; the classifier answers with a decision or the call fails.*)
(***************************************************************************)
NextBurst ==
    \/ \E title \in {"T1", "T2"} : Observe(1, UrlA, title)
    \/ \E i \in Obs : FetchThrow(i)
    \/ \E i \in Obs, decision \in {"BLOCK", "ALLOW"} :
          FetchRespond(i, 200, decision, PlainReason, 0)
    \/ Pipeline
    \/ Tasks
    \/ Tick

SpecBurst == Init /\ [][NextBurst]_vars

(***************************************************************************)
(* SpecPair: a page is observed, and while its check has not resolved the  *)
(* same page (the same key) is observed once more, on either tab.          *)
(***************************************************************************)
NextPair ==
    \/ nobs = 0 /\ Observe(1, UrlA, "T1")
    \/ /\ nobs = 1
       /\ InBody(1) \/ Calling(1)
       /\ \E t \in Tabs, u \in {UrlA, UrlAw}, title \in {"T1", "T2"} : Observe(t, u, title)
    \/ \E i \in Obs : FetchThrow(i)
    \/ \E i \in Obs, decision \in {"BLOCK", "ALLOW"} :
          FetchRespond(i, 200, decision, PlainReason, 0)
    \/ Pipeline
    \/ Tasks
    \/ Tick

SpecPair == Init /\ [][NextPair]_vars

(***************************************************************************)
(* SpecRepeat: a page is observed and its check completes; then the tab    *)
(* sends the observation again at once (the clock advances only while the  *)
(* classifier call is on the network).                                     *)
(***************************************************************************)
NextRepeat ==
    \/ nobs = 0 /\ Observe(1, UrlA, "T1")
    \/ /\ nobs >= 1
       /\ hpc[1].pc = "done"
       /\ \E title \in {"T1", "T2"} : Observe(1, UrlA, title)
    \/ \E i \in Obs, decision \in {"BLOCK", "ALLOW"}, reason \in Reasons \ {""} :
          FetchRespond(i, 200, decision, reason, 0)
    \/ Pipeline
    \/ Tasks
    \/ (\E i \in Obs : Calling(i)) /\ Tick

SpecRepeat == Init /\ [][NextRepeat]_vars

(***************************************************************************)
(* SpecAuth: observations of two pages on two tabs; the classifier answers *)
(* with a decision, rejects the credential (401, 403) or fails.            *)
(***************************************************************************)
NextAuth ==
    \/ nobs < 2 /\ \E t \in Tabs, u \in {UrlA, UrlB} : Observe(t, u, "T1")
    \/ \E i \in Obs : FetchThrow(i)
    \/ \E i \in Obs, status \in {200, 401, 403, 500}, decision \in {"BLOCK", "ALLOW"} :
          FetchRespond(i, status, decision, PlainReason, 0)
    \/ \E i \in Obs : HpcRemoveToken(i)
    \/ Pipeline
    \/ Tasks
    \/ Tick

SpecAuth == Init /\ [][NextAuth]_vars

(***************************************************************************)
(* SpecCache: the service worker has cached a BLOCK decision for one page  *)
(* under rule version 1; two pages are observed on one tab, the backend's  *)
(* answers carry its rule version (which the user may raise) or none, and  *)
(* the user may pause blocking.                                            *)
(***************************************************************************)
CachedBlock == [decision |-> "BLOCK", reason |-> PlainReason, timestamp |-> T0,
                cacheVersion |-> 1]

InitCache ==
    /\ now = T0
    /\ authToken = TRUE
    /\ tabState = [t \in Tabs |-> NoTabState]
    /\ tabLocks = [t \in Tabs |-> 0]
    /\ pendingRequests = [k \in Keys |-> 0]
    /\ recentlyProcessed = [k \in Keys |-> 0]
    /\ cache = [k \in Keys |-> IF k = normalizeUrl(UrlA) THEN CachedBlock ELSE NoEntry]
    /\ store = [InitStore EXCEPT !.cacheVersion = 1]
    /\ psu = [i \in Obs |-> NoPsu]
    /\ hpc = [i \in Obs |-> NoHpc]
    /\ waiters = [i \in Obs |-> <<>>]
    /\ clr = [c \in 0..MaxObs |-> NoClr]
    /\ blockTasks = {}
    /\ logTasks = {}
    /\ serverVersion = 1
    /\ nobs = 0
    /\ nops = 0
    /\ calls = [k \in Keys |-> 0]
    /\ redirects = {}
    /\ dashboardOpens = 0
    /\ unhandled = {}
    /\ InitNav
    /\ InitMore

Clearing ==
    \/ \E c \in 0..MaxObs : ClrSnapshot(c)
    \/ \E c \in 0..MaxObs : ClrRemove(c)
    \/ \E c \in 0..MaxObs : ClrPost(c)
    \/ \E c \in 0..MaxObs : ClrNotify(c)

NextCache ==
    \/ nobs < 2 /\ \E u \in {UrlA, UrlB}, title \in {"T1", "T2"} : Observe(1, u, title)
    \/ \E i \in Obs, reason \in {PlainReason, TimedReason}, cacheVersion \in {0, MaxVersion} :
          FetchRespond(i, 200, "BLOCK", reason, cacheVersion)
    \/ \E i \in Obs : HpcGetLocalVersion(i)
    \/ \E i \in Obs : HpcSetVersion(i)
    \/ Clearing
    \/ SyncPause(TRUE)
    \/ Pipeline
    \/ \E task \in blockTasks : BlockPage(task)
    \/ \E task \in logTasks : LogGet(task)
    \/ \E task \in logTasks : LogSet(task)
    \/ now = T0 /\ Tick

SpecCache == InitCache /\ [][NextCache]_vars

(***************************************************************************)
(* SpecBilling: two pages are observed, one on each tab; the classifier    *)
(* answers with BLOCK or with 402 (subscription required), and the user    *)
(* may clear the local cache.                                              *)
(***************************************************************************)
NextBilling ==
    \/ nobs = 0 /\ Observe(1, UrlA, "T1")
    \/ nobs = 1 /\ Observe(2, UrlB, "T1")
    \/ \E i \in Obs, status \in {200, 402} :
          FetchRespond(i, status, "BLOCK", PlainReason, 0)
    \/ \E i \in Obs : HpcGetPrompt(i)
    \/ \E i \in Obs : HpcSetPrompt(i)
    \/ ClearLocalCache
    \/ Clearing
    \/ Pipeline
    \/ \E task \in blockTasks : BlockPage(task)
    \/ \E task \in logTasks : LogGet(task)
    \/ \E task \in logTasks : LogSet(task)
    \/ now = T0 /\ Tick

SpecBilling == Init /\ [][NextBilling]_vars

(***************************************************************************)
(* SpecRetry: two pages are observed on two tabs; every attempt of a       *)
(* classifier call throws or is answered with some HTTP status.  An        *)
(* attempt ends (the abort timer of fetchWithTimeout fires at the latest), *)
(* a backoff timer fires, and a settled promise runs its reactions.        *)
(***************************************************************************)
AttemptEnds(i) ==
    \/ FetchThrow(i)
    \/ \E status \in Statuses : FetchRespond(i, status, "BLOCK", PlainReason, 0)

NextRetry ==
    \/ nobs < 2 /\ \E t \in Tabs, u \in {UrlA, UrlB} : Observe(t, u, "T1")
    \/ \E i \in Obs : AttemptEnds(i)
    \/ \E i \in Obs : HpcRemoveToken(i)
    \/ \E i \in Obs : HpcGetPrompt(i)
    \/ \E i \in Obs : HpcSetPrompt(i)
    \/ Pipeline
    \/ \E task \in blockTasks : BlockPage(task)
    \/ \E task \in logTasks : LogGet(task)
    \/ \E task \in logTasks : LogSet(task)

FairRetry == \A i \in Obs : WF_vars(AttemptEnds(i)) /\ WF_vars(Settle(i))

SpecRetry == Init /\ [][NextRetry]_vars /\ FairRetry

(***************************************************************************)
(* SpecSafe: tab 1 observes, and navigates to, a page of a safe-listed     *)
(* host (a subdomain of a safe-list entry) and a page of another host; the *)
(* classifier answers with a decision.                                     *)
(***************************************************************************)
NextSafe ==
    \/ nobs < 2 /\ \E u \in {UrlS, UrlA}, title \in {"T1", "T2"} : Observe(1, u, title)
    \/ nnav < 2 /\ \E u \in {UrlS, UrlA}, changed \in BOOLEAN, loading \in BOOLEAN :
          OnUpdated(1, u, changed, loading)
    \/ \E n \in Navs : UpdGetCache(n)
    \/ \E n \in Navs : UpdDecide(n)
    \/ \E task \in shortsTasks : EndGet(task)
    \/ \E i \in Obs, decision \in {"BLOCK", "ALLOW"} :
          FetchRespond(i, 200, decision, PlainReason, 0)
    \/ Pipeline
    \/ Tasks

SpecSafe == Init /\ [][NextSafe]_vars

(***************************************************************************)
(* SpecWindow: tab 1 sends three observations of one page, each after the  *)
(* handler of the one before has returned.  The second carries a new       *)
(* title; the third differs from the last observation that went on to the  *)
(* cache lookup: it repeats the second when the cooldown check turned the  *)
(* second away, and carries the first title again otherwise.               *)
(***************************************************************************)
ThirdTitle == IF psu[2].exit = "cooldown" THEN "T2" ELSE "T1"

NextWindow ==
    \/ nobs = 0 /\ Observe(1, UrlA, "T1")
    \/ nobs = 1 /\ psu[1].pc = "done" /\ Observe(1, UrlA, "T2")
    \/ nobs = 2 /\ psu[2].pc = "done" /\ Observe(1, UrlA, ThirdTitle)
    \/ \E i \in Obs, decision \in {"BLOCK", "ALLOW"} :
          FetchRespond(i, 200, decision, PlainReason, 0)
    \/ Pipeline
    \/ Tasks
    \/ Tick

SpecWindow == Init /\ [][NextWindow]_vars

(***************************************************************************)
(* SpecLog: the service worker has cached a BLOCK decision for one page;   *)
(* tab 1 navigates to that page, then observes another page, which the     *)
(* classifier blocks, then navigates to the first page again; the user     *)
(* deletes an entry of the activity log or clears the log.                 *)
(***************************************************************************)
\* no redirect and no session bookkeeping is under way
Settled == blockTasks = {} /\ shortsTasks = {}

NextLog ==
    \/ nnav = 0 /\ OnUpdated(1, UrlA, TRUE, TRUE)
    \/ nobs = 0 /\ upd[1].pc = "done" /\ Settled /\ Observe(1, UrlB, "T1")
    \/ nnav = 1 /\ psu[1].pc = "done" /\ hpc[1].pc = "done" /\ Settled
          /\ OnUpdated(1, UrlA, TRUE, TRUE)
    \/ \E n \in Navs : UpdGetCache(n)
    \/ \E n \in Navs : UpdDecide(n)
    \/ \E task \in shortsTasks : EndGet(task)
    \/ \E i \in Obs : FetchRespond(i, 200, "BLOCK", PlainReason, 0)
    \/ \E n \in 1..Len(store.localBlockLog) :
          DeleteSingleLog(store.localBlockLog[n].timestamp)
    \/ \E task \in logTasks : DelGet(task)
    \/ \E task \in logTasks : DelSet(task)
    \/ ClearBlockLog
    \/ Pipeline
    \/ \E task \in blockTasks : BlockPage(task)
    \/ \E task \in logTasks : LogGet(task)
    \/ \E task \in logTasks : LogSet(task)
    \/ Tick

SpecLog == InitCache /\ [][NextLog]_vars

(***************************************************************************)
(* SpecShorts: tab 1 reports three short-form pages, one after another,    *)
(* then a page that is not short-form; each report may come with the start *)
(* of a load.  The events arrive in this order; the storage calls of their *)
(* handlers complete whenever they complete.                               *)
(***************************************************************************)
ShortsRoute == <<UrlY1, UrlY2, UrlY3, UrlA>>

NextShorts ==
    \/ \E loading \in BOOLEAN :
          nnav < Len(ShortsRoute) /\ OnUpdated(1, ShortsRoute[nnav + 1], TRUE, loading)
    \/ \E n \in Navs : UpdGetCache(n)
    \/ \E n \in Navs : UpdDecide(n)
    \/ \E task \in shortsTasks : ViewedGet(task)
    \/ \E task \in shortsTasks : ViewedSet(task)
    \/ \E task \in shortsTasks : EndGet(task)
    \/ \E task \in shortsTasks : EndRemove(task)
    \/ PersistSession(1)
    \/ \E task \in logTasks : LogGet(task)
    \/ \E task \in logTasks : LogSet(task)
    \/ now < T0 + PartMs /\ Elapse(PartMs)
    \/ Tick

SpecShorts == Init /\ [][NextShorts]_vars

(***************************************************************************)
(* SpecLeave: tab 1 reports a short-form page; once its session is buffered *)
(* the tab reports a page that is not short-form (on the safe list or not, *)
(* with or without the start of a load) or is closed; the tab is closed    *)
(* afterwards.                                                             *)
(***************************************************************************)
NextLeave ==
    \/ \E loading \in BOOLEAN : nnav = 0 /\ OnUpdated(1, UrlY1, TRUE, loading)
    \/ \E u \in {UrlA, UrlS}, loading \in BOOLEAN :
          /\ nnav = 1 /\ NavsHandled /\ shortsSessionBuffer[1].active
          /\ OnUpdated(1, u, TRUE, loading)
    \/ nnav = 1 /\ NavsHandled /\ shortsSessionBuffer[1].active /\ OnRemoved(1)
    \/ nnav = 2 /\ NavsHandled /\ logTasks = {} /\ OnRemoved(1)
    \/ \E n \in Navs : UpdGetCache(n)
    \/ \E n \in Navs : UpdDecide(n)
    \/ \E task \in shortsTasks : ViewedGet(task)
    \/ \E task \in shortsTasks : ViewedSet(task)
    \/ \E task \in shortsTasks : EndGet(task)
    \/ \E task \in shortsTasks : EndRemove(task)
    \/ PersistSession(1)
    \/ \E task \in logTasks : LogGet(task)
    \/ \E task \in logTasks : LogSet(task)
    \/ Tick

SpecLeave == Init /\ [][NextLeave]_vars

(***************************************************************************)
(* SpecRestart: the service worker has been restarted TickMs after tab 1   *)
(* began a short-form session; the buffer is empty and storage holds the   *)
(* session as the periodic write left it.  The tab reports a short-form    *)
(* page (seen before or new) or a page that is not short-form, or is       *)
(* closed; a second such event follows once the first has been handled.    *)
(***************************************************************************)
Persisted ==
    [active |-> TRUE, count |-> 2, startTime |-> T0, startUrl |-> UrlY1,
     visitedUrls |-> {ShortsNormalized(UrlY1), ShortsNormalized(UrlY2)},
     platform |-> getShortsPlatform(UrlY1)]

InitRestart ==
    /\ now = T0 + TickMs
    /\ authToken = TRUE
    /\ tabState = [t \in Tabs |-> NoTabState]
    /\ tabLocks = [t \in Tabs |-> 0]
    /\ pendingRequests = [k \in Keys |-> 0]
    /\ recentlyProcessed = [k \in Keys |-> 0]
    /\ cache = [k \in Keys |-> NoEntry]
    /\ store = InitStore
    /\ psu = [i \in Obs |-> NoPsu]
    /\ hpc = [i \in Obs |-> NoHpc]
    /\ waiters = [i \in Obs |-> <<>>]
    /\ clr = [c \in 0..MaxObs |-> NoClr]
    /\ blockTasks = {}
    /\ logTasks = {}
    /\ serverVersion = 1
    /\ nobs = 0
    /\ nops = 0
    /\ calls = [k \in Keys |-> 0]
    /\ redirects = {}
    /\ dashboardOpens = 0
    /\ unhandled = {}
    /\ upd = [n \in Navs |-> NoUpd]
    /\ nnav = 0
    /\ shortsSessionBuffer = [t \in Tabs |-> NoSession]
    /\ sessionStore = [t \in Tabs |-> IF t = 1 THEN Persisted ELSE NoSession]
    /\ shortsTasks = {}
    /\ InitMore

\* the events of tab 1 that concern its session
SessionEvent ==
    \/ \E u \in {UrlY2, UrlY3, UrlA}, loading \in BOOLEAN : OnUpdated(1, u, TRUE, loading)
    \/ OnRemoved(1)

NextRestart ==
    \/ nnav = 0 /\ SessionEvent
    \/ nnav = 1 /\ NavsHandled /\ logTasks = {} /\ SessionEvent
    \/ \E n \in Navs : UpdGetCache(n)
    \/ \E n \in Navs : UpdDecide(n)
    \/ \E task \in shortsTasks : ViewedGet(task)
    \/ \E task \in shortsTasks : ViewedSet(task)
    \/ \E task \in shortsTasks : EndGet(task)
    \/ \E task \in shortsTasks : EndRemove(task)
    \/ PersistSession(1)
    \/ \E task \in logTasks : LogGet(task)
    \/ \E task \in logTasks : LogSet(task)
    \/ Tick

SpecRestart == InitRestart /\ [][NextRestart]_vars

(***************************************************************************)
(* SpecCleanup: the service worker starts with decision-cache entries left *)
(* by setCache in earlier runs, each written at one of two times, and runs *)
(* cleanupCache; nothing else writes the cache.                            *)
(***************************************************************************)
CleanupKeys == {normalizeUrl(u) : u \in {UrlA, UrlB, UrlH1, UrlH2, UrlH3}}

\* the entry setCache wrote at time t
WrittenAt(t) == [CachedBlock EXCEPT !.timestamp = t]

InitCleanup ==
    /\ now = T0 + 2 * TickMs
    /\ authToken = TRUE
    /\ tabState = [t \in Tabs |-> NoTabState]
    /\ tabLocks = [t \in Tabs |-> 0]
    /\ pendingRequests = [k \in Keys |-> 0]
    /\ recentlyProcessed = [k \in Keys |-> 0]
    /\ cache \in [Keys -> {NoEntry, WrittenAt(T0), WrittenAt(T0 + TickMs)}]
    /\ \A k \in Keys \ CleanupKeys : cache[k] = NoEntry
    /\ store = [InitStore EXCEPT !.cacheVersion = 1]
    /\ psu = [i \in Obs |-> NoPsu]
    /\ hpc = [i \in Obs |-> NoHpc]
    /\ waiters = [i \in Obs |-> <<>>]
    /\ clr = [c \in 0..MaxObs |-> NoClr]
    /\ blockTasks = {}
    /\ logTasks = {}
    /\ serverVersion = 1
    /\ nobs = 0
    /\ nops = 0
    /\ calls = [k \in Keys |-> 0]
    /\ redirects = {}
    /\ dashboardOpens = 0
    /\ unhandled = {}
    /\ InitNav
    /\ InitMore

NextCleanup ==
    \/ CleanupCache
    \/ CleanupGet
    \/ CleanupRemove

SpecCleanup == InitCleanup /\ [][NextCleanup]_vars

(***************************************************************************)
(* SpecNormalize: normalizeUrl is applied to a string and then to its own  *)
(* result.  The strings: with or without a scheme, with or without www.,   *)
(* the watch page of the video site or another page, with or without a     *)
(* trailing slash and query parameters, bare or behind a view-source:      *)
(* prefix.                                                                 *)
(***************************************************************************)
Inputs ==
    {Prefixed(prefix, MkUrl(scheme, host, path, slash, v, other)) :
        prefix \in {"", "view-source"},
        scheme \in {"https", ""},
        host \in {<<"site", "com">>, <<"www", "site", "com">>,
                  <<"youtube", "com">>, <<"www", "youtube", "com">>},
        path \in {<<>>, <<"a">>, <<"watch">>},
        slash \in BOOLEAN,
        v \in {"", "1"},
        other \in {"", "ref=1"}}

InitNormalize ==
    /\ now = T0
    /\ authToken = TRUE
    /\ tabState = [t \in Tabs |-> NoTabState]
    /\ tabLocks = [t \in Tabs |-> 0]
    /\ pendingRequests = [k \in Keys |-> 0]
    /\ recentlyProcessed = [k \in Keys |-> 0]
    /\ cache = [k \in Keys |-> NoEntry]
    /\ store = InitStore
    /\ psu = [i \in Obs |-> NoPsu]
    /\ hpc = [i \in Obs |-> NoHpc]
    /\ waiters = [i \in Obs |-> <<>>]
    /\ clr = [c \in 0..MaxObs |-> NoClr]
    /\ blockTasks = {}
    /\ logTasks = {}
    /\ serverVersion = 1
    /\ nobs = 0
    /\ nops = 0
    /\ calls = [k \in Keys |-> 0]
    /\ redirects = {}
    /\ dashboardOpens = 0
    /\ unhandled = {}
    /\ InitNav
    /\ cleanup = NoCleanup
    /\ arg \in Inputs
    /\ res = <<>>
    /\ external = <<>>

\* normalizeUrl(arg), then normalizeUrl of the result
Normalize ==
    /\ Len(res) < 2
    /\ res' = Append(res, normalizeUrl(IF res = <<>> THEN arg ELSE res[Len(res)]))
    /\ UNCHANGED <<now, authToken, tabState, tabLocks, pendingRequests, recentlyProcessed,
                   cache, store, psu, hpc, waiters, clr, blockTasks, logTasks,
                   serverVersion, nobs, nops, calls, redirects, dashboardOpens, unhandled>>
    /\ UNCHANGED navVars
    /\ UNCHANGED <<cleanup, arg, external>>

NextNormalize == Normalize

SpecNormalize == InitNormalize /\ [][NextNormalize]_vars

(***************************************************************************)
(* SpecVariant: tab 1 observes a page; once the check of that observation  *)
(* has finished, the tab observes the same page under a url that differs   *)
(* in www., a trailing slash or a query parameter other than v.            *)
(***************************************************************************)
VariantOf(u) == IF u = UrlA THEN UrlAw ELSE UrlWs

NextVariant ==
    \/ \E u \in {UrlA, UrlW} : nobs = 0 /\ Observe(1, u, "T1")
    \/ /\ nobs = 1
       /\ psu[1].pc = "done" /\ hpc[1].pc = "done"
       /\ Observe(1, VariantOf(psu[1].url), "T2")
    \/ \E i \in Obs, decision \in {"BLOCK", "ALLOW"} :
          FetchRespond(i, 200, decision, PlainReason, 0)
    \/ Pipeline
    \/ Tasks
    \/ Tick

SpecVariant == Init /\ [][NextVariant]_vars



(***************************************************************************)
(* SpecStorage: tab 1 observes a page and, while the locked body of that   *)
(* observation is running, observes it again with a new title; the         *)
(* classifier answers with a decision; any read or write of the decision   *)
(* cache or of cacheVersion may fail with an I/O error.                    *)
(***************************************************************************)
StorageFails ==
    \/ \E i \in Obs : PsuGetCacheFails(i)
    \/ \E i \in Obs : PsuVersionFails(i)
    \/ \E i \in Obs : HpcSetCacheGetFails(i)
    \/ \E i \in Obs : HpcSetCacheSetFails(i)

NextStorage ==
    \/ nobs = 0 /\ Observe(1, UrlA, "T1")
    \/ nobs = 1 /\ InBody(1) /\ Observe(1, UrlA, "T2")
    \/ \E i \in Obs, decision \in {"BLOCK", "ALLOW"} :
          FetchRespond(i, 200, decision, PlainReason, 0)
    \/ StorageFails
    \/ Pipeline
    \/ Tasks
    \/ Tick

SpecStorage == Init /\ [][NextStorage]_vars







(***************************************************************************)
(* SpecRedirect: the service worker has cached a BLOCK decision for one    *)
(* page; tab 1 observes another page and navigates to the cached one, tab *)
(* 2 observes either page, and every classifier call ends in one of the    *)
(* ways it can end: a decision, 401, 402, a server error, or an attempt    *)
(* that throws.  The clock advances once, while a call is on the network.  *)
(***************************************************************************)
NextRedirect ==
    \/ nobs = 0 /\ Observe(1, UrlB, "T1")
    \/ \E u \in {UrlA, UrlB} : nobs = 1 /\ Observe(2, u, "T1")
    \/ nnav = 0 /\ OnUpdated(1, UrlA, TRUE, TRUE)
    \/ \E n \in Navs : UpdGetCache(n)
    \/ \E n \in Navs : UpdDecide(n)
    \/ \E task \in shortsTasks : EndGet(task)
    \/ \E i \in Obs : FetchThrow(i)
    \/ \E i \in Obs, status \in {200, 401, 402, 500}, decision \in {"BLOCK", "ALLOW"} :
          FetchRespond(i, status, decision, PlainReason, 0)
    \/ \E i \in Obs : HpcRemoveToken(i)
    \/ \E i \in Obs : HpcGetPrompt(i)
    \/ \E i \in Obs : HpcSetPrompt(i)
    \/ Pipeline
    \/ Tasks
    \/ (\E i \in Obs : Calling(i)) /\ now = T0 /\ Tick

SpecRedirect == InitCache /\ [][NextRedirect]_vars

(***************************************************************************)
(* SpecLive: tab 1 observes a page and tab 2 observes the same page (under *)
(* the same url or a variant with the same key) at any time afterwards;    *)
(* the classifier answers every call with BLOCK.  Every storage call, every *)
(* classifier call and every promise reaction that can run does run.       *)
(***************************************************************************)
NextLive ==
    \/ nobs = 0 /\ Observe(1, UrlA, "T1")
    \/ \E u \in {UrlA, UrlAw} : nobs = 1 /\ Observe(2, u, "T1")
    \/ \E i \in Obs : FetchRespond(i, 200, "BLOCK", PlainReason, 0)
    \/ Pipeline
    \/ \E task \in blockTasks : BlockPage(task)
    \/ \E task \in logTasks : LogGet(task)
    \/ \E task \in logTasks : LogSet(task)
    \/ Tick

FairLive ==
    /\ \A i \in Obs : WF_vars(FetchRespond(i, 200, "BLOCK", PlainReason, 0))
    /\ \A i \in Obs : WF_vars(PsuFilter(i)) /\ WF_vars(PsuGetCache(i))
    /\ \A i \in Obs : WF_vars(PsuDecide(i)) /\ WF_vars(Settle(i))
    /\ \A i \in Obs : WF_vars(HpcSetCacheGet(i)) /\ WF_vars(HpcSetCacheSet(i))
    /\ WF_vars(\E task \in blockTasks : BlockPage(task))
    /\ WF_vars(\E task \in logTasks : LogGet(task))
    /\ WF_vars(\E task \in logTasks : LogSet(task))

SpecLive == Init /\ [][NextLive]_vars /\ FairLive

(***************************************************************************)
(* SpecVersion: two pages are observed, one on each tab; the classifier    *)
(* blocks both, and each answer carries the backend's rule version of the  *)
(* moment, which the user's rule changes raise from one answer to the      *)
(* next.                                                                   *)
(***************************************************************************)
NextVersion ==
    \/ nobs = 0 /\ Observe(1, UrlA, "T1")
    \/ nobs = 1 /\ Observe(2, UrlB, "T1")
    \/ \E i \in Obs, cacheVersion \in 1..MaxVersion :
          FetchRespond(i, 200, "BLOCK", PlainReason, cacheVersion)
    \/ \E i \in Obs : HpcGetLocalVersion(i)
    \/ \E i \in Obs : HpcSetVersion(i)
    \/ Clearing
    \/ Pipeline
    \/ \E task \in blockTasks : BlockPage(task)
    \/ \E task \in logTasks : LogGet(task)
    \/ \E task \in logTasks : LogSet(task)

SpecVersion == Init /\ [][NextVersion]_vars

(***************************************************************************)
(* SpecStamp: the stored rule version is 1 and one page is cached under    *)
(* it; two other pages are observed, one on each tab.  Under version 1 the *)
(* user's rules block every page; the user then relaxes the rules, and     *)
(* under version 2 the classifier allows every page.  Every answer carries *)
(* the version it was produced under.                                      *)
(***************************************************************************)
DecisionUnder(version) == IF version = 1 THEN "BLOCK" ELSE "ALLOW"

NextStamp ==
    \/ nobs = 0 /\ Observe(1, UrlB, "T1")
    \/ nobs = 1 /\ Observe(2, UrlH1, "T1")
    \/ \E i \in Obs, version \in 1..MaxVersion :
          FetchRespond(i, 200, DecisionUnder(version), PlainReason, version)
    \/ \E i \in Obs : HpcGetLocalVersion(i)
    \/ \E i \in Obs : HpcSetVersion(i)
    \/ Clearing
    \/ Pipeline
    \/ Tasks

SpecStamp == InitCache /\ [][NextStamp]_vars

(***************************************************************************)
(* SpecClear: the user has switched on the logging of ALLOW decisions, a   *)
(* subscription prompt has been shown, tab 1 has an active short-form      *)
(* session that the timer has written to storage, and one page is cached   *)
(* under rule version 1.  The cache is then cleared: by the user           *)
(* (CLEAR_LOCAL_CACHE), by a pause (SYNC_PAUSE), or by a classifier answer *)
(* to an observation on tab 2 that carries a newer rule version.           *)
(***************************************************************************)
InitClear ==
    /\ now = T0 + TickMs
    /\ authToken = TRUE
    /\ tabState = [t \in Tabs |-> NoTabState]
    /\ tabLocks = [t \in Tabs |-> 0]
    /\ pendingRequests = [k \in Keys |-> 0]
    /\ recentlyProcessed = [k \in Keys |-> 0]
    /\ cache = [k \in Keys |-> IF k = normalizeUrl(UrlA) THEN CachedBlock ELSE NoEntry]
    /\ store = [InitStore EXCEPT !.cacheVersion = 1, !.logAllowDecisions = TRUE,
                                 !.lastSubscriptionPrompt = T0]
    /\ psu = [i \in Obs |-> NoPsu]
    /\ hpc = [i \in Obs |-> NoHpc]
    /\ waiters = [i \in Obs |-> <<>>]
    /\ clr = [c \in 0..MaxObs |-> NoClr]
    /\ blockTasks = {}
    /\ logTasks = {}
    /\ serverVersion = 1
    /\ nobs = 0
    /\ nops = 0
    /\ calls = [k \in Keys |-> 0]
    /\ redirects = {}
    /\ dashboardOpens = 0
    /\ unhandled = {}
    /\ upd = [n \in Navs |-> NoUpd]
    /\ nnav = 0
    /\ shortsSessionBuffer = [t \in Tabs |-> IF t = 1 THEN Persisted ELSE NoSession]
    /\ sessionStore = [t \in Tabs |-> IF t = 1 THEN Persisted ELSE NoSession]
    /\ shortsTasks = {}
    /\ InitMore

NextClear ==
    \/ ClearLocalCache
    \/ SyncPause(TRUE)
    \/ nobs = 0 /\ Observe(2, UrlB, "T1")
    \/ \E i \in Obs, decision \in {"BLOCK", "ALLOW"}, cacheVersion \in {1, MaxVersion} :
          FetchRespond(i, 200, decision, PlainReason, cacheVersion)
    \/ \E i \in Obs : HpcGetLocalVersion(i)
    \/ \E i \in Obs : HpcSetVersion(i)
    \/ Clearing
    \/ Pipeline
    \/ Tasks

SpecClear == InitClear /\ [][NextClear]_vars

(***************************************************************************)
(* SpecPause: one page is cached as blocked.  Tab 1 observes another page, *)
(* which the classifier blocks, and navigates to the cached page; tab 2    *)
(* observes the cached page; at any moment the user pauses blocking.       *)
(***************************************************************************)
NextPause ==
    \/ nobs = 0 /\ Observe(1, UrlB, "T1")
    \/ nobs = 1 /\ Observe(2, UrlA, "T1")
    \/ nnav = 0 /\ OnUpdated(1, UrlA, TRUE, TRUE)
    \/ \E n \in Navs : UpdGetCache(n)
    \/ \E n \in Navs : UpdDecide(n)
    \/ \E task \in shortsTasks : EndGet(task)
    \/ \E i \in Obs : FetchRespond(i, 200, "BLOCK", PlainReason, 0)
    \/ SyncPause(TRUE)
    \/ Clearing
    \/ Pipeline
    \/ \E task \in blockTasks : BlockPage(task)
    \/ \E task \in logTasks : LogGet(task)
    \/ \E task \in logTasks : LogSet(task)

SpecPause == InitCache /\ [][NextPause]_vars

(***************************************************************************)
(* SpecExternal: a page is observed and blocked, so that the log has an    *)
(* entry, while messages arrive from outside: without a sender url, with a *)
(* url that does not parse, from origins that resemble a trusted one       *)
(* (another scheme, a longer hostname, an opaque origin), and from the     *)
(* dashboard itself.                                                       *)
(***************************************************************************)
SenderBare      == MkUrl("", <<"beaconblocker", "vercel", "app">>, <<>>, FALSE, "", "")
SenderHttp      == MkUrl("http", <<"beaconblocker", "vercel", "app">>, <<>>, FALSE, "", "")
SenderLookalike == MkUrl("https", <<"beaconblocker", "vercel", "app", "evil", "com">>,
                         <<>>, FALSE, "", "")
SenderOpaque    == Prefixed("blob:", MkUrl("https", <<"beaconblocker", "vercel", "app">>,
                                           <<"id">>, FALSE, "", ""))
SenderDashboard == MkUrl("https", <<"beaconblocker", "vercel", "app">>, <<"logs">>,
                         FALSE, "", "")

Senders == {NullUrl, SenderBare, SenderHttp, SenderLookalike, SenderOpaque,
            SenderDashboard}

NextExternal ==
    \/ nobs = 0 /\ Observe(1, UrlB, "T1")
    \/ \E i \in Obs : FetchRespond(i, 200, "BLOCK", PlainReason, 0)
    \/ \E senderUrl \in Senders, type \in MessageTypes, paused \in BOOLEAN,
          timestamp \in {0} \cup {log.timestamp : log \in Range(store.localBlockLog)} :
          OnMessageExternal(senderUrl, type, paused, timestamp)
    \/ \E task \in logTasks : DelGet(task)
    \/ \E task \in logTasks : DelSet(task)
    \/ Clearing
    \/ Pipeline
    \/ \E task \in blockTasks : BlockPage(task)
    \/ \E task \in logTasks : LogGet(task)
    \/ \E task \in logTasks : LogSet(task)

SpecExternal == InitCache /\ [][NextExternal]_vars

(***************************************************************************)
(* SpecFull: the stored activity log is one entry short of its bound; its  *)
(* entries were written a millisecond apart, for two pages in turn.  One   *)
(* page is cached as blocked.  Tab 1 observes the cached page and tab 2    *)
(* another page, which the classifier blocks or allows; ALLOW decisions    *)
(* are logged.                                                             *)
(***************************************************************************)
OldEntry(n) ==
    [url |-> IF n % 2 = 1 THEN UrlH1 ELSE UrlH2,
     reason |-> [cached |-> FALSE, text |-> PlainReason], decision |-> "BLOCK",
     timestamp |-> T0 + MAX_BLOCK_LOG_SIZE - n, count |-> 0, duration |-> <<0, 0>>]

InitFull ==
    /\ now = T0 + MAX_BLOCK_LOG_SIZE
    /\ authToken = TRUE
    /\ tabState = [t \in Tabs |-> NoTabState]
    /\ tabLocks = [t \in Tabs |-> 0]
    /\ pendingRequests = [k \in Keys |-> 0]
    /\ recentlyProcessed = [k \in Keys |-> 0]
    /\ cache = [k \in Keys |-> IF k = normalizeUrl(UrlA) THEN CachedBlock ELSE NoEntry]
    /\ store = [InitStore EXCEPT !.cacheVersion = 1, !.logAllowDecisions = TRUE,
                                 !.localBlockLog =
                                     [n \in 1..(MAX_BLOCK_LOG_SIZE - 1) |-> OldEntry(n)]]
    /\ psu = [i \in Obs |-> NoPsu]
    /\ hpc = [i \in Obs |-> NoHpc]
    /\ waiters = [i \in Obs |-> <<>>]
    /\ clr = [c \in 0..MaxObs |-> NoClr]
    /\ blockTasks = {}
    /\ logTasks = {}
    /\ serverVersion = 1
    /\ nobs = 0
    /\ nops = 0
    /\ calls = [k \in Keys |-> 0]
    /\ redirects = {}
    /\ dashboardOpens = 0
    /\ unhandled = {}
    /\ InitNav
    /\ InitMore

NextFull ==
    \/ nobs = 0 /\ Observe(1, UrlA, "T1")
    \/ nobs = 1 /\ Observe(2, UrlB, "T1")
    \/ \E i \in Obs, decision \in {"BLOCK", "ALLOW"} :
          FetchRespond(i, 200, decision, PlainReason, 0)
    \/ Pipeline
    \/ Tasks
    \/ now = T0 + MAX_BLOCK_LOG_SIZE /\ Tick

SpecFull == InitFull /\ [][NextFull]_vars

(***************************************************************************)
(* SpecViews: tab 1 reports three short-form pages, each one of two videos *)
(* (one of them also under a url with a query string), with or without the *)
(* start of a load; an event may arrive while the handlers of the earlier  *)
(* ones are still waiting for storage.  No session is ended.               *)
(***************************************************************************)
UrlY1q == MkUrl("https", <<"www", "youtube", "com">>, <<"shorts", "s1">>, FALSE, "",
                "si=1")

NextViews ==
    \/ \E u \in {UrlY1, UrlY1q, UrlY2}, loading \in BOOLEAN :
          nnav \in {0, 1, 2} /\ OnUpdated(1, u, TRUE, loading)
    \/ \E n \in Navs : UpdGetCache(n)
    \/ \E n \in Navs : UpdDecide(n)
    \/ \E task \in shortsTasks : ViewedGet(task)
    \/ \E task \in shortsTasks : ViewedSet(task)
    \/ PersistSession(1)

SpecViews == Init /\ [][NextViews]_vars

(***************************************************************************)
(* SpecVideo: tab 1 observes the watch page of one video, on the www host  *)
(* or on the mobile host; the classifier blocks or allows it.  Once that   *)
(* check has finished, tab 2 observes the watch page of another video on   *)
(* the same host.                                                          *)
(***************************************************************************)
OtherVideo(u) == IF u = UrlW THEN UrlW2 ELSE UrlM2

NextVideo ==
    \/ \E u \in {UrlW, UrlM1} : nobs = 0 /\ Observe(1, u, "T1")
    \/ /\ nobs = 1
       /\ psu[1].pc = "done" /\ hpc[1].pc = "done"
       /\ Observe(2, OtherVideo(psu[1].url), "T2")
    \/ \E i \in Obs, decision \in {"BLOCK", "ALLOW"} :
          FetchRespond(i, 200, decision, PlainReason, 0)
    \/ Pipeline
    \/ Tasks
    \/ Tick

SpecVideo == Init /\ [][NextVideo]_vars

(***************************************************************************)
(* Properties.                                                             *)
(***************************************************************************)
\* every handler that has started has run to its end
Quiet ==
    /\ \A i \in Obs : psu[i].pc \in {"none", "done"} /\ hpc[i].pc \in {"none", "done"}
    /\ blockTasks = {}
    /\ logTasks = {}

\* C1: two observations of one key, the second issued before the first one's
\* classifier call has resolved: the classifier is invoked at most once for the
\* key, and both end with the same decision applied (both tabs redirected when
\* the decision is BLOCK, neither when it is ALLOW).
C1_CoalescedPair ==
    (Quiet /\ psu[2].pc = "done" /\ Key(1) = Key(2) /\ hpc[1].pc = "done") =>
        /\ calls[Key(1)] <= 1
        /\ (hpc[1].result = "data" /\ hpc[1].data.decision = "BLOCK") =>
               (Redirected(psu[1].tab) /\ Redirected(psu[2].tab))
        /\ (hpc[1].result = "data" /\ hpc[1].data.decision = "ALLOW") =>
               redirects = {}

\* C2: in every reachable state at most one classifier call is outstanding per
\* normalized key (a caller that finds a call registered for its key awaits it
\* and issues none of its own).
C2_OneCallPerKey ==
    \A i, j \in Obs : (Calling(i) /\ Calling(j) /\ Key(i) = Key(j)) => i = j

\* C3: the locked bodies of handlePageStateUpdate for one tab never overlap: at
\* most one of them is between lock acquisition and lock release at any time.
C3_BodiesSerialized ==
    \A i, j \in Obs : (InBody(i) /\ InBody(j) /\ psu[i].tab = psu[j].tab) => i = j

\* the observation of invocation i found a BLOCK entry stamped with the stored
\* cacheVersion
HitsBlock(i) ==
    /\ psu[i].cached.decision = "BLOCK"
    /\ psu[i].cached.cacheVersion = store.cacheVersion

StartsTasks(i) ==
    /\ \E task \in blockTasks' \ blockTasks : task.id = i /\ task.kind = "psu"
    /\ \E task \in logTasks' \ logTasks : task.id = i /\ task.kind = "psu"

\* C4 as stated: an observation that reaches the cache lookup and finds a BLOCK
\* entry stamped with the stored cacheVersion never causes a classifier call, and
\* the cached decision is acted on: the block is logged and blockPage is called.
C4_CachedBlockActedOn ==
    [][\A i \in Obs : (Decides(i) /\ HitsBlock(i)) =>
            /\ calls' = calls
            /\ hpc' = hpc
            /\ StartsTasks(i)]_vars

\* C4 amended: such an observation never causes a classifier call; it logs the
\* cached block and calls blockPage unless the tab is already marked as blocked
\* for that exact url, in which case it does neither; and blockPage redirects the
\* tab unless blocking has been paused by the time it runs.
C4_CachedBlockNoCall ==
    /\ [][\A i \in Obs : (Decides(i) /\ HitsBlock(i)) =>
            /\ calls' = calls
            /\ hpc' = hpc
            /\ IF tabState[psu[i].tab].present /\ tabState[psu[i].tab].blockedUrl = psu[i].url
               THEN blockTasks' = blockTasks /\ logTasks' = logTasks
               ELSE StartsTasks(i)]_vars
    /\ [][\A task \in blockTasks : (task.kind = "psu" /\ task \notin blockTasks') =>
            IF store.blockingPaused
            THEN redirects' = redirects
            ELSE [tab |-> task.tab, url |-> task.url, kind |-> task.kind, id |-> task.id]
                     \in redirects']_vars

\* a cached BLOCK decision has redirected the tab with no classifier call for the key
C4_Witness ==
    \E r \in redirects : r.kind = "psu" /\ calls[normalizeUrl(r.url)] = 0

\* C5: once the backend's cache version has advanced beyond the version a key's
\* cache entry is stamped with, the next check for that key triggers exactly one
\* classifier call, and the old entry is gone from the cache before the new
\* entry is written.
C5_StaleEntryRechecked ==
    /\ [][\A i \in Obs :
            (Decides(i) /\ psu[i].cached # NoEntry
                /\ psu[i].cached.cacheVersion < serverVersion) =>
            calls'[Key(i)] = calls[Key(i)] + 1]_vars
    /\ [][\A i \in Obs :
            (hpc[i].pc = "setCacheSet" /\ hpc'[i].pc # "setCacheSet") =>
            ~(cache[Key(i)] # NoEntry /\ cache[Key(i)].cacheVersion < serverVersion)]_vars

\* C6: once a response that carried a cacheVersion has been handled to its end
\* (cache cleared, version stored, entry written), no cache entry stamped with an
\* older version remains, and the entry written for it carries that version.
C6_NoOlderEntry ==
    \A i \in Obs :
        (hpc[i].pc \in {"settled", "done"} /\ hpc[i].result = "data"
            /\ hpc[i].data.cacheVersion # 0) =>
        \A k \in Keys :
            cache[k] # NoEntry => cache[k].cacheVersion >= hpc[i].data.cacheVersion

\* the reasons of the model that isTimeSensitive accepts
TimedReasons == {reason \in Reasons : isTimeSensitive(reason)}

C8_RepeatReinvokes ==
    \A j \in Obs :
        ( /\ j > 1
          /\ hpc[1].pc = "done" /\ hpc[1].result = "data"
          /\ hpc[1].data.decision = "BLOCK" /\ isTimeSensitive(hpc[1].data.reason)
          /\ psu[j].pc = "done" /\ psu[j].tab = psu[1].tab /\ psu[j].url = psu[1].url )
        => hpc[j].pc # "none"

\* C9: when the classifier call of a check fails (network error or timeout after
\* the retries, or a server error), the request promise rejects, the rejection
\* is caught by the pipeline and does not propagate, and the check redirects
\* nothing and never reaches the cache write.
C9_RejectionCaught ==
    \A i \in Obs :
        hpc[i].result = "rejected" =>
            /\ hpc[i].pc \in {"settled", "done"}
            /\ i \notin unhandled
            /\ ~\E r \in redirects : r.kind = "own" /\ r.id = i
            /\ ~\E task \in blockTasks \cup logTasks : task.kind = "own" /\ task.id = i

\* the classifier has answered the call of invocation i with 401 or 403
AuthFailed(i) == hpc[i].status \in {401, 403}

\* C10: when the classifier answers a check with 401 or 403, the branch clears
\* the stored and the in-memory credential, the request is not sent again, the
\* call resolves to null, and nothing comes of the check: no cache write, no
\* redirect and no activity-log entry.
C10_AuthFailure ==
    /\ [](\A i \in Obs : AuthFailed(i) =>
            /\ hpc[i].pc \in {"removeToken", "settled", "done"}
            /\ hpc[i].pc # "removeToken" => hpc[i].result = "null"
            /\ ~\E r \in redirects : r.id = i
            /\ ~\E task \in blockTasks \cup logTasks : task.id = i)
    /\ [][\A i \in Obs :
            (hpc[i].pc = "removeToken" /\ hpc'[i].pc # "removeToken") =>
                /\ ~authToken' /\ ~store'.authToken
                /\ cache' = cache
                /\ calls' = calls]_vars

\* a check has ended on a 401 or 403 and the credential is gone
C10_Witness ==
    \E i \in Obs : AuthFailed(i) /\ hpc[i].pc = "done" /\ ~authToken /\ ~store.authToken

\* C11: a 402 response is never retried and never blocks the page, and the
\* dashboard is opened at most once per 10-minute throttle window over all 402
\* responses (the clock of the model stays within one window), concurrent
\* checks of different keys and a cache clear in between included.
C11_BillingOnce ==
    /\ dashboardOpens <= 1
    /\ \A i \in Obs : hpc[i].status = 402 =>
            /\ hpc[i].attempt = 0
            /\ calls[Key(i)] <= Cardinality({j \in Obs : Key(j) = Key(i)})
            /\ ~\E r \in redirects : r.id = i
            /\ ~\E task \in blockTasks \cup logTasks : task.id = i

\* C12: a classifier call makes at most API_MAX_RETRIES + 1 attempts; it goes
\* round again only after an attempt that threw, never after an attempt that
\* returned a response of any status; it throws only when the last attempt
\* allowed has thrown; and every call that is on the network comes to an end.
C12_BoundedAttempts ==
    /\ [](\A i \in Obs : hpc[i].attempt + 1 <= API_MAX_RETRIES + 1)
    /\ [](\A i \in Obs : Calling(i) => hpc[i].status = 0)
    /\ [][\A i \in Obs : (Calling(i) /\ hpc'[i] # hpc[i]) =>
            \/ hpc'[i].status # 0 /\ ~Calling(i)' /\ hpc'[i].attempt = hpc[i].attempt
            \/ /\ hpc'[i].status = 0 /\ Calling(i)'
               /\ hpc'[i].attempt = hpc[i].attempt + 1
            \/ /\ hpc'[i].status = 0 /\ hpc'[i].result = "rejected"
               /\ hpc[i].attempt = API_MAX_RETRIES]_vars
    /\ \A i \in Obs : Calling(i) ~> ~Calling(i)

\* a call has thrown after its third attempt, and another one was answered on
\* its third attempt after two that threw
C12_Witness ==
    \E i, j \in Obs :
        /\ hpc[i].pc = "done" /\ hpc[i].result = "rejected" /\ hpc[i].status = 0
        /\ ~Calling(j) /\ hpc[j].status # 0 /\ hpc[j].attempt = API_MAX_RETRIES

\* the hostname equals a safe-list entry or is a subdomain of one
OnSafeList(u) ==
    \E safe \in SAFE_LIST :
        \/ u.host = safe
        \/ Len(u.host) > Len(safe)
              /\ \A n \in 1..Len(safe) : u.host[Len(u.host) - Len(safe) + n] = safe[n]

\* C13: for a url whose hostname equals or is a subdomain of a safe-list entry,
\* no page observation, navigation start or call of handlePageCheck ever causes
\* a classifier call, a cache write or an activity-log entry for that url.
C13_SafeListUntouched ==
    \A u \in URLS : OnSafeList(u) =>
        /\ calls[normalizeUrl(u)] = 0
        /\ pendingRequests[normalizeUrl(u)] = 0
        /\ cache[normalizeUrl(u)] = NoEntry
        /\ \A i \in Obs : psu[i].url = u => hpc[i].pc = "none"
        /\ \A task \in logTasks \cup blockTasks : task.url # u
        /\ \A n \in 1..Len(store.localBlockLog) : store.localBlockLog[n].url # u
        /\ HpcSkips(u)

\* the safe-listed page has been observed and navigated to, both handlers have
\* run to their end, and the other page has gone to the classifier
C13_Witness ==
    /\ OnSafeList(UrlS)
    /\ \E i \in Obs : psu[i].pc = "done" /\ psu[i].url = UrlS
    /\ \E n \in Navs : upd[n].pc = "done" /\ upd[n].url = UrlS
    /\ calls[normalizeUrl(UrlA)] >= 1
    /\ store.localBlockLog # <<>>

\* the locked body of invocation i reads blockingPaused in this step and finds
\* it set
PausedAtCheck(i) == psu[i].pc = "pause" /\ psu'[i].pc # "pause" /\ store.blockingPaused

\* C14: an observation processed while blocking is paused is rejected with no
\* state change: the TabState, the cooldown records, the cache, the activity
\* log and the pending requests are unchanged, no classifier call and no
\* redirect is issued, and the handler has returned.
C14_PausedRejected ==
    [][\A i \in Obs : PausedAtCheck(i) =>
            /\ tabState' = tabState
            /\ recentlyProcessed' = recentlyProcessed
            /\ cache' = cache
            /\ store' = store
            /\ logTasks' = logTasks
            /\ pendingRequests' = pendingRequests
            /\ calls' = calls /\ hpc' = hpc
            /\ redirects' = redirects /\ blockTasks' = blockTasks
            /\ psu'[i].pc = "done" /\ hpc[i].pc = "none"]_vars

\* blocking is paused and an observation of the cached page has returned
\* without a TabState having been made for its tab
C14_Witness ==
    \E i \in Obs :
        /\ store.blockingPaused
        /\ psu[i].pc = "done" /\ psu[i].url = UrlA /\ hpc[i].pc = "none"
        /\ ~tabState[psu[i].tab].present
        /\ redirects = {} /\ calls[normalizeUrl(UrlA)] = 0

\* the locked body of invocation i runs its checks in this step, blocking is not
\* paused, and the tab has a last processed observation
ChecksAfterFirst(i) ==
    /\ psu[i].pc = "pause" /\ psu'[i].pc # "pause"
    /\ ~store.blockingPaused
    /\ tabState[psu[i].tab].present
    /\ tabState[psu[i].tab].lastProcessedUrl # NullUrl

\* C15: an observation whose (url, title) equals the tab's last processed
\* observation, or whose title changed while its url did not, is rejected as a
\* no-op (the very first observation of the tab excepted): the TabState and the
\* cooldown records are unchanged and the handler returns.
C15_RepeatIsNoOp ==
    [][\A i \in Obs :
            (ChecksAfterFirst(i) /\ psu[i].url = tabState[psu[i].tab].lastProcessedUrl) =>
                /\ tabState' = tabState
                /\ recentlyProcessed' = recentlyProcessed
                /\ psu'[i].pc = "done"]_vars

\* the locked body of invocation i runs its checks in this step
RunsChecks(i) == psu[i].pc = "pause" /\ psu'[i].pc # "pause"

\* the key of invocation i was last accepted less than the cooldown window ago
InWindow(i) ==
    /\ recentlyProcessed[Key(i)] # 0
    /\ now - recentlyProcessed[Key(i)] < PROCESSING_COOLDOWN_MS

\* C16: an observation of a key that was accepted less than 3 seconds ago is not
\* processed (it does not go on to the cache lookup), and an observation that
\* arrives once the window has elapsed is processed.
C16_CooldownWindow ==
    [][\A i \in Obs : RunsChecks(i) =>
            IF InWindow(i) THEN psu'[i].pc = "done" ELSE psu'[i].pc = "getCache"]_vars

\* C17: an observation that the cooldown check rejects does nothing (the
\* cooldown record, the tab's TabState, the cache and the activity log are left
\* unchanged), and an observation it accepts records the current time for the
\* key.
C17_CooldownFrame ==
    [][\A i \in Obs : RunsChecks(i) =>
            /\ psu'[i].exit = "cooldown" =>
                  /\ recentlyProcessed' = recentlyProcessed
                  /\ tabState' = tabState
                  /\ cache' = cache
                  /\ store' = store /\ logTasks' = logTasks
            /\ psu'[i].pc = "getCache" => recentlyProcessed'[Key(i)] = now]_vars

\* C18: while a tab is marked as redirected for a url (blockedUrl), no further
\* redirect is issued for that tab and url, whichever path produced the BLOCK.
C18_RedirectOnce ==
    [][\A t \in Tabs :
            (tabState[t].present /\ tabState[t].blockedUrl # NullUrl) =>
                ~\E r \in redirects' \ redirects :
                    r.tab = t /\ r.url = tabState[t].blockedUrl]_vars

\* the entries n and n + 1 of the log say the same and are less than the dedup
\* window apart
AdjacentDuplicate(blockLog, n) ==
    /\ blockLog[n].url = blockLog[n + 1].url
    /\ blockLog[n].reason = blockLog[n + 1].reason
    /\ blockLog[n].decision = blockLog[n + 1].decision
    /\ blockLog[n].timestamp - blockLog[n + 1].timestamp < LOG_DEDUP_MS
    /\ blockLog[n + 1].timestamp - blockLog[n].timestamp < LOG_DEDUP_MS

\* C19: in every reachable state of the stored activity log, no two adjacent
\* entries have identical (url, reason, decision) and timestamps less than the
\* 10-second dedup window apart.
C19_NoAdjacentDuplicates ==
    \A n \in 1..(Len(store.localBlockLog) - 1) :
        ~AdjacentDuplicate(store.localBlockLog, n)

\* the milliseconds a logged duration stands for
DurationMs(duration) == (duration[1] * 60 + duration[2]) * 1000

\* C20: three short-form navigations to three distinct resources on tab 1, one
\* after another, leave the tab's session with count 3; ending the session then
\* appends exactly one activity-log entry, which carries count 3 and a duration
\* not less than the time elapsed since the session started.
C20_SessionOfThree ==
    /\ []((nnav = 3 /\ NavsHandled) => shortsSessionBuffer[1].count = 3)
    /\ []((nnav = 4 /\ NavsHandled /\ logTasks = {}) =>
             /\ Len(store.localBlockLog) = 1
             /\ store.localBlockLog[1].count = 3)
    /\ [][\A task \in shortsTasks :
             EndRemove(task) =>
                DurationMs(SessionLog(task).duration) >= now - task.session.startTime]_vars

\* the stored log holds exactly one summary entry of a short-form session
OneSummary ==
    /\ Len(store.localBlockLog) = 1
    /\ store.localBlockLog[1].reason = [cached |-> FALSE, text |-> "Short-form Content"]

\* C21: tab 1 has an active short-form session and then reports a url that is
\* not short-form, or is closed; once the handlers of that event have finished,
\* the session is gone from the buffer and from storage and one summary entry is
\* in the activity log.
C21_LeaveEndsSession ==
    (nnav = 2 /\ NavsHandled /\ logTasks = {}) =>
        /\ shortsSessionBuffer[1] = NoSession
        /\ sessionStore[1] = NoSession
        /\ OneSummary

\* session is the persisted session, continued
Continues(session) ==
    /\ session.startTime = Persisted.startTime
    /\ session.startUrl = Persisted.startUrl
    /\ Persisted.visitedUrls \subseteq session.visitedUrls

\* C22: the service worker restarts with an active session of tab 1 in storage
\* and an empty buffer; during and after the handling of the tab's next
\* short-form observation or session end, every session record of the tab
\* (buffered or stored) has the persisted start time and start url and a visited
\* set that includes the persisted one; an observation leaves the session
\* buffered, and an end logs one summary with the persisted start url, the
\* persisted count and a duration counted, in whole seconds, from the persisted
\* start.
C22_SessionContinues ==
    nnav = 1 =>
        /\ shortsSessionBuffer[1].active => Continues(shortsSessionBuffer[1])
        /\ sessionStore[1].active => Continues(sessionStore[1])
        /\ (NavsHandled /\ isShortsUrl(upd[1].url)) => shortsSessionBuffer[1].active
        /\ (NavsHandled /\ logTasks = {} /\ ~isShortsUrl(upd[1].url)) =>
              /\ OneSummary
              /\ store.localBlockLog[1].url = Persisted.startUrl
              /\ store.localBlockLog[1].count = Cardinality(Persisted.visitedUrls)
              /\ DurationMs(store.localBlockLog[1].duration) >= RoundSeconds(TickMs) * 1000

\* the next observation is of a new resource: the rehydrated session has taken
\* it in
C22_Witness ==
    /\ nnav = 1 /\ NavsHandled
    /\ shortsSessionBuffer[1].active
    /\ shortsSessionBuffer[1].startTime = Persisted.startTime
    /\ shortsSessionBuffer[1].count = 3
    /\ ShortsNormalized(UrlY3) \in shortsSessionBuffer[1].visitedUrls

\* C23: once cleanupCache has completed, with no cache write beside it, the
\* store holds at most MAX_CACHE_SIZE decision-cache entries, and the entries it
\* removes are the oldest of the decision cache: none of them is newer than an
\* entry it leaves.
C23_CacheBounded ==
    /\ [](cleanup.pc = "done" => Cardinality(Cached) <= MAX_CACHE_SIZE)
    /\ [][CleanupRemove =>
             \A k \in cleanup.toRemove, m \in Cached \ cleanup.toRemove :
                cache[k].timestamp <= cache[m].timestamp]_vars

\* C24: for every input string u, normalizeUrl(normalizeUrl(u)) equals
\* normalizeUrl(u), and for a string that new URL rejects the result is the
\* string itself.
C24_NormalizeIdempotent ==
    /\ (Len(res) >= 1 /\ ~Parses(arg)) => res[1] = arg
    /\ Len(res) = 2 => res[2] = res[1]

\* u1 and u2 differ at most in a leading www., a trailing slash and the query
\* parameters other than v
SameResource(u1, u2) ==
    /\ u1.scheme = u2.scheme
    /\ StripWww(u1.host) = StripWww(u2.host)
    /\ u1.path = u2.path
    /\ u1.v = u2.v

\* C25: two urls that differ only in a leading www., a trailing slash or query
\* parameters other than the retained v parameter normalize to the same key, and
\* the second of two observations of such urls leads to no classifier call of
\* its own: one call at most is made, for the shared key.
C25_VariantsShareKey ==
    (nobs = 2 /\ SameResource(psu[1].url, psu[2].url)) =>
        /\ Key(1) = Key(2)
        /\ \A k \in Keys : calls[k] <= (IF k = Key(1) THEN 1 ELSE 0)

\* every handlePageCheck call made for key k has finished (none is on the
\* network, storing its result or awaiting another call)
AllFinished(k) == \A i \in Obs : Key(i) = k => hpc[i].pc \in {"none", "done"}

\* C26: whenever no classifier call for a key is outstanding and every
\* handlePageCheck caller for the key has finished, whether its call fulfilled,
\* rejected or threw, pendingRequests has no entry for the key.
C26_RegistrationRemoved ==
    \A k \in Keys : AllFinished(k) => pendingRequests[k] = 0

\* two callers for one key have finished after a call that rejected, and the
\* registration is gone
C26_Witness ==
    \E i, j \in Obs :
        /\ i # j /\ Key(i) = Key(j) /\ AllFinished(Key(i))
        /\ hpc[i].pc = "done" /\ hpc[i].result = "rejected"
        /\ hpc[j].pc = "done"
        /\ calls[Key(i)] >= 2
        /\ pendingRequests[Key(i)] = 0

\* no handlePageStateUpdate operation of tab t is waiting or running
TabIdle(t) == \A i \in Obs : psu[i].tab = t => psu[i].pc \in {"none", "done"}

\* C27: whenever no handlePageStateUpdate operation for a tab is still running,
\* whether the operations ended by an early return, at their end or by an
\* exception, tabLocks has no entry for the tab; and no operation waits on the
\* lock of an operation that has ended.
C27_LockReleased ==
    /\ \A t \in Tabs : TabIdle(t) => tabLocks[t] = 0
    /\ \A i \in Obs : psu[i].pc = "waitLock" => psu[psu[i].waitOn].pc # "done"

\* the first operation threw while the second waited on its lock; the second
\* has run to its end and the lock is gone
C27_Witness ==
    /\ psu[1].pc = "done" /\ psu[1].exit = "threw"
    /\ psu[2].pc = "done" /\ psu[2].exit = "end"
    /\ psu[2].tab = psu[1].tab
    /\ tabLocks[psu[1].tab] = 0

\* C28: the lock of a tab is never released while the classifier call started
\* by that tab's observation is still outstanding: while the call of
\* observation i is on the network or its result is being stored, observation i
\* still holds its place in the locked operation.
C28_LockHeldDuringCall ==
    \A i \in Obs :
        hpc[i].pc \in {"fetch", "setCacheGet", "setCacheSet", "settled"} =>
            psu[i].pc # "done"

\* observation i has received BLOCK from the classifier and everything its
\* check started has run to its end
BlockReceived(i) ==
    /\ hpc[i].pc = "done" /\ hpc[i].status = 200 /\ hpc[i].data.decision = "BLOCK"
    /\ blockTasks = {}

\* C29: a storage I/O error while the cache entry or cacheVersion is read or
\* the cache entry is written never propagates out of the check (no locked body
\* throws, no request promise rejects), and a BLOCK decision received from the
\* classifier is acted on all the same: the tab is redirected.
C29_StorageErrorsAbsorbed ==
    \A i \in Obs :
        /\ psu[i].exit # "threw"
        /\ hpc[i].result # "rejected"
        /\ BlockReceived(i) => Redirected(psu[i].tab)

\* the stored log has an entry for url u
Logged(u) == \E n \in 1..Len(store.localBlockLog) : store.localBlockLog[n].url = u

\* C30: activity-log appends that overlap lose nothing: once every
\* addToLocalBlockLog call has completed, the stored log has an entry for the
\* page of every observation whose own classifier call returned BLOCK.
C30_NoAppendLost ==
    logTasks = {} =>
        \A i \in Obs :
            (hpc[i].pc = "done" /\ hpc[i].result = "data" /\ hpc[i].status = 200
                /\ hpc[i].data.decision = "BLOCK") => Logged(psu[i].url)

\* the request promise of invocation i has settled with a BLOCK decision of the
\* classifier (a 2xx response) for key k
SettlesBlock(i, k) ==
    /\ hpc[i].pc = "settled" /\ hpc[i].result = "data"
    /\ hpc[i].status = 200 /\ hpc[i].data.decision = "BLOCK"
    /\ Key(i) = k

\* entry says BLOCK and counts as valid under the stored cacheVersion
ValidBlock(entry) ==
    entry.decision = "BLOCK" /\ cacheValid(entry, store.cacheVersion)

\* C31: a tab is redirected only by a blockPage call made for that tab and url,
\* and blockPage is called for a url only in a step that has a BLOCK decision
\* for the url's normalized key: the request promise of the caller (or the one
\* the caller awaited) has settled with a 2xx BLOCK response for the key, or
\* the entry the caller read from the cache under the key says BLOCK and is
\* valid under the stored cacheVersion.  A call that threw, or was answered
\* with 401, 403, 402, an error status or ALLOW, starts no blockPage call.
C31_RedirectNeedsBlock ==
    /\ [][\A r \in redirects' \ redirects :
            \E task \in blockTasks \ blockTasks' :
                r = Redirect(task)]_vars
    /\ [][\A task \in blockTasks' \ blockTasks :
            \/ task \in {[b EXCEPT !.stage = "remove"] : b \in blockTasks}
            \/ /\ task.kind = "own"
               /\ SettlesBlock(task.id, normalizeUrl(task.url))
               /\ task.tab = psu[task.id].tab
            \/ /\ task.kind = "wait"
               /\ SettlesBlock(hpc[task.id].waitOn, normalizeUrl(task.url))
               /\ task.tab = psu[task.id].tab
            \/ /\ task.kind = "psu"
               /\ psu[task.id].pc = "getVersion" /\ psu[task.id].url = task.url
               /\ ValidBlock(psu[task.id].cached)
            \/ /\ task.kind = "upd"
               /\ upd[task.id].pc = "getVersion" /\ upd[task.id].url = task.url
               /\ ValidBlock(upd[task.id].cached)]_vars
    /\ [][\A i \in Obs :
            (psu[i].pc = "getCache" /\ psu'[i].pc = "getVersion") =>
                psu'[i].cached = cache[Key(i)]]_vars
    /\ [][\A n \in Navs :
            (upd[n].pc = "getCache" /\ upd'[n].pc = "getVersion") =>
                upd'[n].cached = cache[normalizeUrl(upd[n].url)]]_vars
    /\ [](\A i \in Obs :
            (hpc[i].pc = "done" /\ ~(hpc[i].result = "data" /\ hpc[i].status = 200
                                     /\ hpc[i].data.decision = "BLOCK")) =>
                ~\E r \in redirects : r.kind = "own" /\ r.id = i)

\* a cached decision, a classifier response and a response awaited by a second
\* caller have each redirected a tab
C31_Witness ==
    /\ \E r \in redirects : r.kind = "upd"
    /\ \E r \in redirects : r.kind = "own"
    /\ \E r \in redirects : r.kind = "wait"

\* tab t has sent an observation
Observed(t) == \E i \in Obs : psu[i].pc # "none" /\ psu[i].tab = t

\* C32: the credential is present, blocking is not paused, the page is not on
\* the safe list and the classifier's decision for its key is BLOCK: every tab
\* that sends its first observation of the page is eventually redirected,
\* whether or not another tab observed the key just before.
C32_EveryTabRedirected ==
    \A t \in Tabs : Observed(t) ~> Redirected(t)

\* C33: the stored cacheVersion never decreases: no step of any interleaving of
\* classifier responses leaves a value smaller than the one stored before it.
C33_VersionNeverDecreases ==
    [][store'.cacheVersion >= store.cacheVersion]_vars

\* C34: every cache entry that counts as valid under the stored cacheVersion
\* was written from a response produced under that version: it holds the
\* decision the classifier gives under that version, not one left behind by a
\* response that was in flight while the stored version advanced.
C34_ValidEntriesCurrent ==
    \A k \in Keys :
        (store.cacheVersion # 0 /\ cacheValid(cache[k], store.cacheVersion)) =>
            cache[k].decision = DecisionUnder(store.cacheVersion)

\* invocation c of handleClearLocalCache takes a step
ClearStep(c) == clr[c].pc # "idle" /\ clr'[c] # clr[c]

\* C35: clearing the decision cache, whether for a user reset, a pause or a
\* version bump, removes every decision-cache entry it found and leaves every
\* other key of the store as it was: the credential, the activity log,
\* cacheVersion, the pause flag, the activity-log settings, the billing-prompt
\* timestamp and the stored short-form sessions.
C35_ClearKeepsOtherKeys ==
    [][\A c \in 0..MaxObs : ClearStep(c) =>
            /\ store' = store
            /\ sessionStore' = sessionStore
            /\ clr[c].pc = "remove" =>
                  \A k \in clr[c].keysToRemove : cache'[k] = NoEntry]_vars

\* C36: while blockingPaused is set in the store, no step redirects a tab and
\* no step appends an entry to the stored activity log, whichever handler the
\* step belongs to and whenever that handler started.
C36_PausedDoesNothing ==
    [][store.blockingPaused =>
            /\ redirects' = redirects
            /\ store'.localBlockLog = store.localBlockLog]_vars

\* the url is missing, does not parse, or names an origin outside the list
Untrusted(url) ==
    \/ url = NullUrl
    \/ ~Parses(url)
    \/ url.prefix # ""
    \/ \A origin \in TRUSTED_ORIGINS : url.scheme # origin.scheme \/ url.host # origin.host

\* everything the extension holds, in memory and in storage
programState ==
    <<now, authToken, tabState, tabLocks, pendingRequests, recentlyProcessed,
      cache, store, psu, hpc, waiters, clr, blockTasks, logTasks, serverVersion,
      nobs, nops, calls, redirects, dashboardOpens, unhandled, upd, nnav,
      shortsSessionBuffer, sessionStore, shortsTasks, cleanup>>

HeadIs(blockLog, task, time) ==
    /\ Len(blockLog) >= 1
    /\ blockLog[1].url = task.url
    /\ blockLog[1].decision = task.decision
    /\ blockLog[1].timestamp = time

\* the call moves from its read of the log to its write in this step
Appends(task) ==
    /\ task \in logTasks
    /\ task.stage = "read"
    /\ \E written \in logTasks' : written.id = task.id /\ written.kind = task.kind
                                    /\ written.stage = "write"

\* the call writes the log in this step
Writes(task) ==
    /\ task \in logTasks
    /\ task.stage = "write"
    /\ task \notin logTasks'

\* C38: the stored activity log is newest-first and bounded: it never has more
\* than MAX_BLOCK_LOG_SIZE entries and no entry is newer than one before it; the
\* log a call of addToLocalBlockLog writes has the call's entry at index 0,
\* followed by the entries the call read, in their order, and when that is more
\* than the bound, the entries left out are the last ones of the log it read.
C38_LogNewestFirstBounded ==
    /\ [](/\ Len(store.localBlockLog) <= MAX_BLOCK_LOG_SIZE
          /\ \A n \in 1..(Len(store.localBlockLog) - 1) :
                store.localBlockLog[n].timestamp >= store.localBlockLog[n + 1].timestamp)
    /\ [][\A task \in logTasks : Appends(task) =>
             \E written \in logTasks' :
                /\ written.id = task.id /\ written.kind = task.kind
                /\ HeadIs(written.blockLog, task, now)
                /\ Len(written.blockLog) =
                       IF Len(store.localBlockLog) < MAX_BLOCK_LOG_SIZE
                       THEN Len(store.localBlockLog) + 1 ELSE MAX_BLOCK_LOG_SIZE
                /\ \A n \in 2..Len(written.blockLog) :
                      written.blockLog[n] = store.localBlockLog[n - 1]]_vars
    /\ [][\A task \in logTasks : Writes(task) =>
             /\ store'.localBlockLog = task.blockLog
             /\ HeadIs(store'.localBlockLog, task, store'.localBlockLog[1].timestamp)]_vars

\* the log was full when a call read it, and the call's write has left out its
\* last entry: the oldest entry of the stored log is the one that was second to
\* last at the start
C38_Witness ==
    /\ Len(store.localBlockLog) = MAX_BLOCK_LOG_SIZE
    /\ store.localBlockLog[MAX_BLOCK_LOG_SIZE] = OldEntry(MAX_BLOCK_LOG_SIZE - 2)
    /\ store.localBlockLog[1].url = UrlB
    /\ store.localBlockLog[2].url = UrlA

\* handleShortsViewed has been called for event n and has taken its decision
Viewed(n) ==
    /\ upd[n].pc = "done"
    /\ upd[n].changed
    /\ isShortsUrl(upd[n].url)
    /\ ~\E task \in shortsTasks : task.kind = "viewed" /\ task.id = n /\ task.stage = "get"

\* the normalized resource ids observed on tab t so far
ObservedIds(t) == {ShortsNormalized(upd[n].url) : n \in {m \in Navs : upd[m].tab = t /\ Viewed(m)}}

\* C39: while a short-form session is active, its count is the number of
\* distinct normalized resource ids observed in it, and its visited set holds
\* just these; an observation leaves the count as it is (the id was in the
\* visited set) or raises it by exactly one (the id was new).
C39_CountIsDistinctIds ==
    /\ [](\A t \in Tabs : shortsSessionBuffer[t].active =>
             /\ shortsSessionBuffer[t].visitedUrls = ObservedIds(t)
             /\ shortsSessionBuffer[t].count = Cardinality(ObservedIds(t)))
    /\ [][\A t \in Tabs :
             (shortsSessionBuffer[t].active /\ shortsSessionBuffer'[t].active) =>
                shortsSessionBuffer'[t].count =
                    IF ObservedIds(t)' = ObservedIds(t)
                    THEN shortsSessionBuffer[t].count
                    ELSE shortsSessionBuffer[t].count + 1]_vars

\* url is the watch page of a video and passes the filter of the pipeline
WatchPage(url) ==
    /\ ~FilteredOut(url)
    /\ IncludesLabels(url.host, <<"youtube", "com">>)
    /\ url.path = <<"watch">>
    /\ url.v # ""

\* invocation i finds a cache entry it takes as valid (lines 819-851)
Hits(i) == Decides(i) /\ cacheValid(psu[i].cached, store.cacheVersion)

\* C40: two observations of video watch pages with different content ids that
\* both pass the content-page filter never share a normalized cache key, on
\* every host the filter takes for the video site; an observation of a video is
\* decided from the cache only when the classifier has answered for that video.
C40_VideosNeverShareKey ==
    /\ [](\A i, j \in Obs :
             (/\ psu[i].pc # "none" /\ psu[j].pc # "none"
              /\ WatchPage(psu[i].url) /\ WatchPage(psu[j].url)
              /\ psu[i].url.v # psu[j].url.v) => Key(i) # Key(j))
    /\ [][\A i \in Obs : (Hits(i) /\ WatchPage(psu[i].url)) =>
             \E j \in Obs : /\ hpc[j].result = "data"
                            /\ psu[j].url.v = psu[i].url.v]_vars
====
